---- MODULE Spec2Model ----
(***************************************************************************)
(* A model of the fluent query builder of fastapi_sqlalchemy:              *)
(*   TableQuery      (src/fastapi_sqlalchemy/table_query.py)               *)
(*   DBQuerySetting  (src/fastapi_sqlalchemy/util.py)                      *)
(* The builder is a record of clause lists, the chain methods and the      *)
(* terminal methods are actions, the statement construction is a set of    *)
(* operators, and the borrowed session is a log of the statements handed   *)
(* to execute and of the commits of the latest call.                       *)
(*                                                                         *)
(* Python strings are sequences of one-character strings, so that lower(), *)
(* split() and join() are computed and not assumed.  An optional value     *)
(* (None or x) is the empty or the one-element sequence.                   *)
(***************************************************************************)
EXTENDS Integers, Sequences, FiniteSets, TLC

VARIABLES
    q,           \* the builder (self): its clause state
    last,        \* the latest call on the builder: method, outcome, error
    executed,    \* statements handed to session.execute by the latest call
    commits,     \* session.commit calls of the latest call
    db_rows,     \* rows of the base table in the database, in id order
    returned,    \* rows returned by the latest create_many
    batches,     \* row batches handed to INSERT by the latest create_many
    page_meta,   \* pagination record returned by the latest paginate
    compiled,    \* statement and dialect compiled by the latest to_sql
    resolved,    \* outcome of the latest call of a function of DBQuerySetting or key parsing
    session,     \* the AsyncSession: its transaction, savepoints and pending changes
    committed,   \* changes the database holds committed, in commit order
    frames,      \* running calls of decorated functions, innermost last
    ctx,         \* value of the context variable _transaction_ctx
    step,        \* what the latest step of a decorated function did
    ncalls,      \* calls of decorated functions made so far
    update_call, \* an update() between its session calls, with other sessions at work
    invoked,     \* invocations of the subquery producer by the latest subquery call
    manager,     \* the DBConnectionManager: its connections, engines and session makers
    cls_session, \* the class attribute _session of a model class
    flows        \* the request flows that use the model class: their sessions and builders

appvars == <<manager, cls_session, flows>>

txvars == <<session, committed, frames, ctx, step, ncalls, update_call, invoked, appvars>>

vars == <<q, last, executed, commits, db_rows, returned, batches, page_meta, compiled, resolved,
          session, committed, frames, ctx, step, ncalls, update_call, invoked,
          manager, cls_session, flows>>

(***************************************************************************)
(* Bounds of the model.                                                    *)
(***************************************************************************)
MaxClauses == 2      \* clause entries a builder accumulates
MaxOld == 1          \* rows the table holds before a create_many call
MaxJoins == 2        \* joins of a builder in the resolver specification
MaxTotal == 7        \* total record count a COUNT statement reports
MaxPage == 4         \* page and per_page arguments of paginate
MaxBatchRows == 5    \* rows of a create_many input in the batching specification
MaxChunk == 3        \* chunk_size argument of create_many
MaxLimit == 2        \* int values limit and offset are called with
MaxOthers == 2       \* statements other sessions commit while an update() runs
MaxRanges == 2       \* range predicates on a builder
MaxFiltered == 2     \* entries of the two predicate groups in the filter-key specification
MaxKeyLen == 5       \* characters of a filter key in the key-parsing specification
MaxSubqueries == 3   \* predicates of the AND group in the subquery specification
MaxBuilders == 2     \* builders a request flow obtains through the model class
MaxDepth == 3        \* calls of decorated functions running inside one another
MaxCalls == 4        \* calls of decorated functions made on one session
MaxChanges == 3      \* changes made through one session

(***************************************************************************)
(* Strings                                                                 *)
(***************************************************************************)
None == <<>>
Some(x) == <<x>>

\* str.lower(), on the characters the model uses
LowerChar(c) ==
    CASE c = "U" -> "u"
      [] c = "P" -> "p"
      [] c = "A" -> "a"
      [] OTHER -> c

Lower(s) == [i \in 1..Len(s) |-> LowerChar(s[i])]

\* str.split(sep) for the two-character separator "__": scanned left to
\* right, separators do not overlap
RECURSIVE SplitFrom(_, _, _)
SplitFrom(s, i, cur) ==
    IF i > Len(s) THEN <<cur>>
    ELSE IF i < Len(s) /\ s[i] = "_" /\ s[i + 1] = "_"
         THEN <<cur>> \o SplitFrom(s, i + 2, <<>>)
         ELSE SplitFrom(s, i + 1, Append(cur, s[i]))

SplitDunder(s) == SplitFrom(s, 1, <<>>)

\* "__".join(parts)
RECURSIVE JoinDunder(_)
JoinDunder(parts) ==
    IF Len(parts) = 0 THEN <<>>
    ELSE IF Len(parts) = 1 THEN parts[1]
    ELSE parts[1] \o <<"_", "_">> \o JoinDunder(Tail(parts))

\* "." in s
HasDot(s) == \E i \in 1..Len(s) : s[i] = "."

\* s.split(".", 1) of a string that holds a dot: the text before the first
\* dot and the text after it
FirstDot(s) == CHOOSE i \in 1..Len(s) : s[i] = "." /\ \A j \in 1..(i - 1) : s[j] # "."

SplitFirstDot(s) ==
    <<SubSeq(s, 1, FirstDot(s) - 1), SubSeq(s, FirstDot(s) + 1, Len(s))>>

(***************************************************************************)
(* Values, relations and expressions                                       *)
(***************************************************************************)
\* A Python value: its type and its text.  A str or an int is one piece of
\* text, a list or a tuple one piece for each item.
Val(t, v) == [t |-> t, v |-> v]
NoneVal == Val("none", <<>>)
IsListOrTuple(value) == value.t \in {"list", "tuple"}
IsList(value) == value.t = "list"

\* f"%{value}%"
Percent(value) == Val("str", <<"%">> \o value.v \o <<"%">>)

\* [value]: a list of one member; when the member is itself a list or a
\* tuple the type says so and the pieces are the pieces of the member
Singleton(value) ==
    CASE value.t = "tuple" -> Val("list_of_tuple", value.v)
      [] value.t = "list" -> Val("list_of_list", value.v)
      [] OTHER -> Val("list", value.v)

\* a model class, an aliased class or an aliased subquery, by the attributes
\* the code reads: __tablename__, __name__, name, and the names hasattr finds
Relation(rid, tablename, pyname, alias, attrs) ==
    [rid |-> rid, tablename |-> tablename, pyname |-> pyname, alias |-> alias, attrs |-> attrs]

NoTable == Relation("None", None, None, None, {})

S_id == <<"i", "d">>
S_x == <<"x">>
S_y == <<"y">>
S_z == <<"z">>
S_t == <<"t">>
S_us == <<"u", "s">>
S_ps == <<"p", "s">>
S_unknown == <<"u", "n", "k", "n", "o", "w", "n">>

User == Relation("User", Some(S_us), Some(<<"U">>), None, {S_id, S_x, S_y, S_z})
Post == Relation("Post", Some(S_ps), Some(<<"P">>), None, {S_id, S_x, S_t})
\* aliased(User): the __tablename__ and the columns of User, under another
\* identity and a __name__ of its own
UserAlias ==
    Relation("UserAlias", Some(S_us), Some(<<"a", "l", "i", "a", "s", "e", "d", "(", "U", ")">>),
             None, {S_id, S_x, S_y, S_z})
\* subquery.alias("us") and subquery.alias("A"): only a name and columns
SubUs == Relation("SubUs", None, None, Some(S_us), {S_id, S_x})
SubA == Relation("SubA", None, None, Some(<<"A">>), {S_id, S_x, S_t})

Expr(kind, op, rel, name, val, args) ==
    [kind |-> kind, op |-> op, rel |-> rel, name |-> name, val |-> val, args |-> args]

\* getattr(model, column_name)
Col(model, name) == Expr("col", "", model.rid, name, NoneVal, <<>>)
\* the model itself in a column list
Entity(model) == Expr("entity", "", model.rid, <<>>, NoneVal, <<>>)
\* a comparison or a method of a column: column == value, column.ilike(...)
Cmp(op, column, value) == Expr("cmp", op, "", <<>>, value, <<column>>)
\* ~expr
Not(e) == Expr("not", "", "", <<>>, NoneVal, <<e>>)
\* func.name(arg)
Func(name, arg) == Expr("func", name, "", <<>>, NoneVal, <<arg>>)

\* sqlalchemy and_(*clauses) and or_(*clauses): one clause is returned as it is
and_(clauses) ==
    IF Len(clauses) = 1 THEN clauses[1] ELSE Expr("and", "", "", <<>>, NoneVal, clauses)

or_(clauses) ==
    IF Len(clauses) = 1 THEN clauses[1] ELSE Expr("or", "", "", <<>>, NoneVal, clauses)

\* the comparisons of an expression
RECURSIVE Atoms(_)
Atoms(e) ==
    IF e.kind \in {"and", "or", "not"}
    THEN UNION {Atoms(e.args[i]) : i \in 1..Len(e.args)}
    ELSE {e}

\* the truth value of an expression on a row, the row given by the set of
\* comparisons that are true of it
RECURSIVE Eval(_, _)
Eval(e, true) ==
    CASE e.kind = "and" -> \A i \in 1..Len(e.args) : Eval(e.args[i], true)
      [] e.kind = "or" -> \E i \in 1..Len(e.args) : Eval(e.args[i], true)
      [] e.kind = "not" -> ~Eval(e.args[1], true)
      [] OTHER -> e \in true

(***************************************************************************)
(* Statements                                                              *)
(***************************************************************************)
\* a statement under construction: a select(), insert(), update() or delete()
\* with the generative calls applied to it
EmptyStmt ==
    [kind |-> "", columns |-> <<>>, select_from |-> None, table |-> None,
     joins |-> <<>>, where |-> <<>>, group_by |-> <<>>, having |-> <<>>,
     order_by |-> <<>>, limit |-> None, offset |-> None, schema |-> None,
     distinct |-> FALSE, values |-> None, returning |-> FALSE, params |-> <<>>]

select(columns) == [EmptyStmt EXCEPT !.kind = "select", !.columns = columns]
insert(table) == [EmptyStmt EXCEPT !.kind = "insert", !.table = Some(table)]
update(table) == [EmptyStmt EXCEPT !.kind = "update", !.table = Some(table)]
delete(table) == [EmptyStmt EXCEPT !.kind = "delete", !.table = Some(table)]

\* stmt.where(criterion): one more criterion, ANDed with the earlier ones
StmtWhere(stmt, criterion) == [stmt EXCEPT !.where = Append(@, criterion)]

\* stmt.join(model, onclause, isouter=..., full=...)
StmtJoin(stmt, model, onclause, isouter, full) ==
    [stmt EXCEPT !.joins = Append(@, [target |-> model, onclause |-> onclause,
                                      isouter |-> isouter, full |-> full])]

\* stmt.execution_options(schema_translate_map={None: schema}) when a schema is set
StmtSchema(stmt, schema) == IF schema # None THEN [stmt EXCEPT !.schema = schema] ELSE stmt

(***************************************************************************)
(* DBQuerySetting                                                          *)
(***************************************************************************)
apply_join(stmt, join_type, model, onclause) ==
    IF join_type = "right" THEN StmtJoin(stmt, model, onclause, TRUE, FALSE)
    ELSE IF join_type = "full" THEN StmtJoin(stmt, model, onclause, TRUE, TRUE)
    ELSE StmtJoin(stmt, model, onclause, join_type = "left", FALSE)

\* the joins of a builder applied from the last entry to the first
RECURSIVE apply_joins_reversed(_, _)
apply_joins_reversed(stmt, joins) ==
    IF joins = <<>> THEN stmt
    ELSE apply_join(apply_joins_reversed(stmt, Tail(joins)),
                    joins[1].join_type, joins[1].model, joins[1].onclause)

\* the joins of a builder applied in list order
RECURSIVE apply_joins(_, _)
apply_joins(stmt, joins) ==
    IF joins = <<>> THEN stmt
    ELSE apply_joins(apply_join(stmt, joins[1].join_type, joins[1].model, joins[1].onclause),
                     Tail(joins))

\* the conditions list apply_where collects: the AND-group, then the OR-group
where_group_conditions(where_conditions, or_conditions) ==
    (IF where_conditions # <<>> THEN <<and_(where_conditions)>> ELSE <<>>)
    \o (IF or_conditions # <<>> THEN <<or_(or_conditions)>> ELSE <<>>)

\* how apply_where combines the two groups when both are present
combine_groups(conditions) == and_(conditions)

apply_where(stmt, where_conditions, or_conditions) ==
    IF where_conditions = <<>> /\ or_conditions = <<>> THEN stmt
    ELSE StmtWhere(stmt, combine_groups(where_group_conditions(where_conditions, or_conditions)))

\* the outcome of a call that returns an expression or raises ValueError
Ok(expr) == [ok |-> TRUE, err |-> "", expr |-> expr]
Raise(err) == [ok |-> FALSE, err |-> err, expr |-> Expr("", "", "", <<>>, NoneVal, <<>>)]

ErrBetween == "'between' requires [min, max] values"
ErrNotBetween == "'not_between' requires [min, max] values"
ErrOperator == "Unsupported operator"
ErrUnknownTable == "Unknown table/model"
ErrNoColumn == "Column not found"
ErrFilterKey == "Column must be 'table.column' or 'table.column__operator'"

IsPair(value) == IsListOrTuple(value) /\ Len(value.v) = 2

build_filter_expression(column, op, value) ==
    CASE op = <<"e", "q">> -> Ok(Cmp("eq", column, value))
      [] op \in {<<"n", "e">>, <<"n", "e", "q">>} -> Ok(Cmp("ne", column, value))
      [] op = <<"g", "t">> -> Ok(Cmp("gt", column, value))
      [] op = <<"g", "t", "e">> -> Ok(Cmp("ge", column, value))
      [] op = <<"l", "t">> -> Ok(Cmp("lt", column, value))
      [] op = <<"l", "t", "e">> -> Ok(Cmp("le", column, value))
      [] op \in {<<"l", "i", "k", "e">>, <<"i", "c", "o", "n", "t", "a", "i", "n", "s">>} ->
            Ok(Cmp("ilike", column, Percent(value)))
      [] op = <<"i", "n">> ->
            Ok(Cmp("in", column, IF IsList(value) THEN value ELSE Singleton(value)))
      [] op = <<"n", "o", "t", "i", "n">> ->
            Ok(Cmp("notin", column, IF IsList(value) THEN value ELSE Singleton(value)))
      [] op = <<"i", "s">> -> Ok(Cmp("is", column, value))
      [] op = <<"n", "o", "t">> -> Ok(Cmp("is_not", column, value))
      [] op = <<"i", "s", "n", "u", "l", "l">> -> Ok(Cmp("is", column, NoneVal))
      [] op = <<"n", "o", "t", "n", "u", "l", "l">> -> Ok(Cmp("is_not", column, NoneVal))
      [] op = <<"s", "t", "a", "r", "t", "s", "w", "i", "t", "h">> ->
            Ok(Cmp("startswith", column, value))
      [] op = <<"e", "n", "d", "s", "w", "i", "t", "h">> -> Ok(Cmp("endswith", column, value))
      [] op = <<"c", "o", "n", "t", "a", "i", "n", "s">> -> Ok(Cmp("contains", column, value))
      [] op = <<"r", "e", "g", "e", "x", "p">> -> Ok(Cmp("regexp_match", column, value))
      [] op = <<"b", "e", "t", "w", "e", "e", "n">> ->
            IF ~IsPair(value) THEN Raise(ErrBetween) ELSE Ok(Cmp("between", column, value))
      [] op = <<"n", "o", "t", "_", "b", "e", "t", "w", "e", "e", "n">> ->
            IF ~IsPair(value) THEN Raise(ErrNotBetween)
            ELSE Ok(Not(Cmp("between", column, value)))
      [] op = <<"i", "s", "n", "o", "t">> -> Ok(Cmp("is_not", column, value))
      [] OTHER -> Raise(ErrOperator)

\* getattr(obj, attr, default).lower() of the base relation
LowerOr(attr, default) == IF attr = None THEN Lower(default) ELSE Lower(attr[1])

\* getattr(obj, attr, None), lowered when it is a non-empty string
LowerOpt(attr) == IF attr # None /\ attr[1] # <<>> THEN Some(Lower(attr[1])) ELSE attr

\* whether the base relation answers to table_name
base_matches(base_table, table_name) ==
    /\ base_table # NoTable
    /\ \/ Lower(table_name) = LowerOr(base_table.tablename, S_unknown)
       \/ Lower(table_name) = LowerOr(base_table.pyname, S_unknown)

\* whether a joined relation answers to table_name
join_matches(join_model, table_name) ==
    \/ Some(Lower(table_name)) = LowerOpt(join_model.tablename)
    \/ Some(Lower(table_name)) = LowerOpt(join_model.pyname)
    \/ Some(Lower(table_name)) = LowerOpt(join_model.alias)

\* the positions of the joins, in the order the loop visits them, that answer
\* to table_name
matching_joins(joins, table_name) ==
    {i \in 1..Len(joins) : join_matches(joins[i].model, table_name)}

\* a loop without the break: the last join that matches
last_matching_join(joins, table_name) ==
    CHOOSE i \in matching_joins(joins, table_name) :
        \A j \in matching_joins(joins, table_name) : i >= j

\* the join the loop stops at: the first that matches
first_matching_join(joins, table_name) ==
    CHOOSE i \in matching_joins(joins, table_name) :
        \A j \in matching_joins(joins, table_name) : i <= j

\* Some(model) for the relation the name resolves to, None when there is none
resolve_model(base_table, joins, table_name) ==
    IF base_matches(base_table, table_name) THEN Some(base_table)
    ELSE IF matching_joins(joins, table_name) # {}
         THEN Some(joins[first_matching_join(joins, table_name)].model)
         ELSE None

\* getattr(obj, attr, default)
AttrOr(attr, default) == IF attr = None THEN default ELSE attr[1]

S_subquery == <<"s", "u", "b", "q", "u", "e", "r", "y">>

\* the entries get_available_tables joins with ", ": one <<name, table>> per
\* relation, printed as name(table)
get_available_tables(base_table, joins) ==
    (IF base_table # NoTable
     THEN <<<<AttrOr(base_table.pyname, S_unknown), AttrOr(base_table.tablename, S_unknown)>>>>
     ELSE <<>>)
    \o [i \in 1..Len(joins) |->
          LET join_model == joins[i].model
              table_name == IF join_model.tablename # None /\ join_model.tablename[1] # <<>>
                            THEN join_model.tablename[1]
                            ELSE AttrOr(join_model.alias, S_unknown)
          IN  IF join_model.pyname # None /\ join_model.pyname[1] # <<>>
              THEN <<join_model.pyname[1], table_name>>
              ELSE <<S_subquery, table_name>>]

get_column_from_model(base_table, joins, table_name, column_name) ==
    LET model == resolve_model(base_table, joins, table_name)
    IN  IF model = None THEN Raise(ErrUnknownTable)
        ELSE IF column_name \notin model[1].attrs THEN Raise(ErrNoColumn)
        ELSE Ok(Col(model[1], column_name))

(***************************************************************************)
(* TableQuery: state, clone, statement construction                        *)
(***************************************************************************)
\* the attributes _reset_state assigns
reset_state ==
    [schema |-> None, base_table |-> NoTable, joins |-> <<>>, where |-> <<>>,
     or_where |-> <<>>, select |-> <<>>, order |-> <<>>, group_by |-> <<>>,
     having |-> <<>>, limit |-> None, offset |-> None, union_queries |-> <<>>,
     union_all |-> FALSE, load_options |-> <<>>, enable_orm |-> FALSE]

\* _clone: a new builder with every attribute copied (deep copies are equal
\* values)
clone(b) ==
    [schema |-> b.schema, base_table |-> b.base_table, joins |-> b.joins,
     where |-> b.where, or_where |-> b.or_where, select |-> b.select,
     order |-> b.order, group_by |-> b.group_by, having |-> b.having,
     limit |-> b.limit, offset |-> b.offset, union_queries |-> b.union_queries,
     union_all |-> b.union_all, load_options |-> b.load_options,
     enable_orm |-> b.enable_orm]

\* the number of clause entries of a builder, which the model bounds
ClauseCount(b) ==
    Len(b.joins) + Len(b.where) + Len(b.or_where) + Len(b.select) + Len(b.order)
    + Len(b.group_by) + Len(b.having) + Len(b.union_queries) + Len(b.load_options)
    + Len(b.limit) + Len(b.offset) + Len(b.schema) + (IF b.enable_orm THEN 1 ELSE 0)

ErrBaseTable == "Base table not set. Use .table(Model) first."
ErrNoId == "Base table has no 'id' column"
ErrDataEmpty == "Data cannot be empty"
ErrDataListEmpty == "Data list cannot be empty"
ErrWhereUpdate == "WHERE clause required for UPDATE. Use .where() first."
ErrWhereDelete == "WHERE clause required for DELETE. Use .where() first."
ErrColumn == "Column does not exist on table"
ErrNoRecord == "No record found"
ErrManyRecords == "Expected exactly one record"
ErrLimit == "Limit must be a positive integer"
ErrOffset == "Offset must be a non-negative integer"
ErrSchema == "Invalid schema name"
ErrUnion == "All arguments must be TableQuery instances"
ErrSession == "raised by the session"
ErrNoneId == "'NoneType' object has no attribute 'id'"

\* limit and offset of _build_query
StmtLimitOffset(stmt, limit, offset) ==
    [stmt EXCEPT !.limit = IF limit # None THEN limit ELSE @,
                 !.offset = IF offset # None THEN offset ELSE @]

\* the statement _build_query returns for a builder whose base table is set
build_query(b) ==
    LET s1 == select(IF b.select # <<>> THEN b.select ELSE <<Entity(b.base_table)>>)
        s2 == StmtSchema(s1, b.schema)
        s3 == apply_joins(s2, b.joins)
        s4 == apply_where(s3, b.where, b.or_where)
        s5 == IF b.group_by # <<>> THEN [s4 EXCEPT !.group_by = b.group_by] ELSE s4
        s6 == IF b.having # <<>> THEN [s5 EXCEPT !.having = <<and_(b.having)>>] ELSE s5
        s7 == IF b.order # <<>> THEN [s6 EXCEPT !.order_by = b.order] ELSE s6
    IN  StmtLimitOffset(s7, b.limit, b.offset)

\* the count statement of count() and paginate()
count_query(b) ==
    LET pk_col == IF S_id \in b.base_table.attrs THEN Some(Col(b.base_table, S_id)) ELSE None
        count_col == IF pk_col # None THEN pk_col[1]
                     ELSE IF b.select # <<>> THEN b.select[1]
                     ELSE Expr("literal_column", "1", "", <<>>, NoneVal, <<>>)
        s1 == IF b.group_by # <<>>
              THEN select(<<Func("count", Func("distinct", count_col))>>)
              ELSE select(<<Func("count", Func("distinct", Col(b.base_table, S_id)))>>)
        s2 == [s1 EXCEPT !.select_from = Some(b.base_table)]
    IN  apply_where(apply_joins(s2, b.joins), b.where, b.or_where)

\* the statement of max(), min(), sum() and avg()
aggregate_query(b, fn, column) ==
    LET s1 == [select(<<Func(fn, column)>>) EXCEPT !.select_from = Some(b.base_table)]
    IN  apply_where(apply_joins(s1, b.joins), b.where, b.or_where)

\* the statement of distinct(*columns), built from the clone and from self
distinct_query(self, cloned, columns) ==
    LET s1 == [select(IF columns # <<>> THEN columns ELSE <<Entity(self.base_table)>>)
                 EXCEPT !.distinct = TRUE, !.select_from = Some(self.base_table)]
        s2 == StmtSchema(s1, cloned.schema)
        s3 == apply_where(apply_joins(s2, cloned.joins), cloned.where, cloned.or_where)
        s4 == IF cloned.order # <<>> THEN [s3 EXCEPT !.order_by = cloned.order] ELSE s3
    IN  StmtLimitOffset(s4, cloned.limit, cloned.offset)

(***************************************************************************)
(* Arguments the calls are made with                                       *)
(***************************************************************************)
Models == {User}

\* the values limit() and offset() are called with: an int, a bool, a float,
\* a str or None; n is the number of a numeric value
PyInt(n) == [t |-> "int", n |-> n]
PyBool(b) == [t |-> "bool", n |-> IF b THEN 1 ELSE 0]
PyFloat(n) == [t |-> "float", n |-> n]
PyStr == [t |-> "str", n |-> 0]
PyNone == [t |-> "none", n |-> 0]

\* isinstance(value, int): bool is a subclass of int
IsInt(value) == value.t \in {"int", "bool"}

IntVal(text) == Val("int", <<text>>)
StrVal(text) == Val("str", <<text>>)

\* User.x == 1, User.y > 5, User.z.ilike("%foo%")
CondX == Cmp("eq", Col(User, S_x), IntVal("1"))
CondY == Cmp("gt", Col(User, S_y), IntVal("5"))
CondZ == Cmp("ilike", Col(User, S_z), Percent(StrVal("foo")))
\* User.id == Post.id
OnPost == Cmp("eq", Col(User, S_id), Val("column", <<"Post.id">>))

WhereArgs == {<<CondX>>}
OrWhereArgs == {<<CondZ>>}

\* filter keys
K_us_x_eq == <<"u", "s", ".", "x", "_", "_", "e", "q">>
K_us_y_gt == <<"u", "s", ".", "y", "_", "_", "g", "t">>
K_us_z_like == <<"u", "s", ".", "z", "_", "_", "l", "i", "k", "e">>
K_U_x == <<"U", ".", "x">>
K_x_eq == <<"x", "_", "_", "e", "q">>
K_us_x_bad == <<"u", "s", ".", "x", "_", "_", "b", "a", "d">>

Entry(key, value) == [key |-> key, value |-> value]

\* {"us.x__eq": 1, "us.y__gt": 5}
FiltersXY == <<Entry(K_us_x_eq, IntVal("1")), Entry(K_us_y_gt, IntVal("5"))>>
\* {"us.z__like": "foo"}
FiltersZ == <<Entry(K_us_z_like, StrVal("foo"))>>
\* {"U.x": 1, "us.y__gt": None}
FiltersXNone == <<Entry(K_U_x, IntVal("1")), Entry(K_us_y_gt, NoneVal)>>
\* {"us.y__gt": None}
FiltersNone == <<Entry(K_us_y_gt, NoneVal)>>
\* {"us.x__eq": 1, "x__eq": 1}: the second key has no table
FiltersNoDot == <<Entry(K_us_x_eq, IntVal("1")), Entry(K_x_eq, IntVal("1"))>>
\* {"us.x__bad": 1}
FiltersBadOp == <<Entry(K_us_x_bad, IntVal("1"))>>

FilterArgs == {FiltersXY, FiltersZ, FiltersXNone, FiltersNone, FiltersNoDot, FiltersBadOp}

\* schema names: "t_1" and "t-1"
SchemaArgs == {<<"t", "_", "1">>, <<"t", "-", "1">>}

\* a builder passed to union(): db.table(Post).where(Post.x == 1)
MemberPosts ==
    [reset_state EXCEPT !.base_table = Post,
                        !.where = <<Cmp("eq", Col(Post, S_x), IntVal("1"))>>]

\* an argument of union(): a TableQuery or something else
UnionArg(is_table_query, b) == [is_table_query |-> is_table_query, builder |-> b]
UnionArgs == {<<UnionArg(TRUE, MemberPosts)>>, <<UnionArg(FALSE, reset_state)>>}

\* a data mapping: its keys, and a tag that tells the mappings of a list apart
Data(keys, tag) == [keys |-> keys, tag |-> tag]
DataArgs == {Data({}, 0), Data({S_x}, 1), Data({S_x, <<"n", "o">>}, 1)}

(***************************************************************************)
(* The calls: what every call records                                      *)
(***************************************************************************)
\* the arguments of a call that the model records: the filters and use_or of
\* apply_filters, page and per_page of paginate, the data of create and
\* update, data_list and chunk_size of create_many
NoArgs == [filters |-> <<>>, use_or |-> FALSE, page |-> 0, per_page |-> 0,
           data |-> <<>>, chunk_size |-> 0, value |-> <<>>, column |-> <<>>, queries |-> <<>>,
           dialect |-> <<>>, show_params |-> FALSE]

CallArgs(op, args, status, error) ==
    [op |-> op, args |-> args, status |-> status, error |-> error]

Call(op, status, error) == CallArgs(op, NoArgs, status, error)

\* the methods that execute.  A builder serves one chained expression, from
\* its construction to the terminal call, or to the first call that raises
Terminals ==
    {"all", "get", "first", "first_or_fail", "one_or_fail", "find", "find_or_fail", "last",
     "count", "exists", "max", "min", "sum", "avg", "distinct", "distinct_by",
     "group_and_deduplicate", "paginate", "create", "create_many", "update", "update_by_id",
     "delete", "delete_by_id"}

\* the chained expression is still running: no call has raised, and none
\* has returned something else than a builder
Open == last.status = "ok" /\ last.op \notin Terminals \cup {"to_sql"}

\* a call that returns nothing the model records beyond its outcome
NoOutputs ==
    /\ returned' = <<>>
    /\ batches' = <<>>
    /\ page_meta' = None
    /\ compiled' = None
    /\ resolved' = None
    /\ UNCHANGED txvars

\* a chain call that returns the builder b
ChainedArgs(op, args, b) ==
    /\ Open
    /\ ClauseCount(b) <= MaxClauses
    /\ q' = b
    /\ last' = CallArgs(op, args, "ok", "")
    /\ executed' = <<>>
    /\ commits' = 0
    /\ UNCHANGED db_rows
    /\ NoOutputs

Chained(op, b) == ChainedArgs(op, NoArgs, b)

\* a call that raises before it hands anything to the session
RaisedArgs(op, args, error) ==
    /\ Open
    /\ q' = q
    /\ last' = CallArgs(op, args, "raise", error)
    /\ executed' = <<>>
    /\ commits' = 0
    /\ UNCHANGED db_rows
    /\ NoOutputs

Raised(op, error) == RaisedArgs(op, NoArgs, error)

\* a session no transaction has begun on; nsaves and nchanges count the
\* savepoints and the changes it has seen, which names them
IdleSession ==
    [begun |-> FALSE, pending |-> <<>>, savepoints |-> <<>>, nsaves |-> 0, nchanges |-> 0]

\* no decorated function has been called
NoStep ==
    [kind |-> "none", standalone |-> FALSE, nested |-> FALSE, began |-> FALSE,
     status |-> "ok", error |-> "", entry |-> <<>>, caught |-> {}]

\* no update() is between its session calls: where the call is, the ids its
\* first SELECT found, the ids its UPDATE matched, the id the table gives
\* next, and the statements other sessions have committed
NoUpdateCall ==
    [pc |-> "idle", affected_ids |-> {}, touched |-> {}, next_id |-> 1, others |-> 0]

\* DBConnectionManager()
NewManager ==
    [connections |-> {}, engines |-> {}, session_makers |-> {},
     default_connection |-> "default", initialized |-> FALSE]

\* the request flows
Flows == {1, 2}

\* a flow that has not set its session and holds no builder
NoFlow == [session |-> None, builders |-> <<>>]

\* no model session is set, no connection is registered
InitApp ==
    /\ manager = NewManager
    /\ cls_session = None
    /\ flows = [f \in Flows |-> NoFlow]

InitTransactions ==
    /\ InitApp
    /\ update_call = NoUpdateCall
    /\ invoked = 0
    /\ session = IdleSession
    /\ committed = <<>>
    /\ frames = <<>>
    /\ ctx = None
    /\ step = NoStep
    /\ ncalls = 0

\* the tables the calls may find: up to MaxOld rows, inserted earlier
OldTables == {[i \in 1..n |-> [id |-> i, tag |-> 0]] : n \in 0..MaxOld}

Init ==
    /\ q = reset_state
    /\ last = Call("__init__", "ok", "")
    /\ executed = <<>>
    /\ commits = 0
    /\ db_rows = <<>>
    /\ returned = <<>>
    /\ batches = <<>>
    /\ page_meta = None
    /\ compiled = None
    /\ resolved = None
    /\ InitTransactions

(***************************************************************************)
(* Chain methods                                                           *)
(***************************************************************************)
\* new(): a fresh builder with the same session and schema
New == Chained("new", [reset_state EXCEPT !.schema = q.schema])

Table == \E model \in Models : Chained("table", [q EXCEPT !.base_table = model])

\* str.isalnum() of name with the underscores removed
IsAlnumChar(c) == c \in {"t", "u", "s", "p", "1", "2"}
ValidSchema(name) ==
    LET kept == SelectSeq(name, LAMBDA c : c # "_")
    IN  kept # <<>> /\ \A i \in 1..Len(kept) : IsAlnumChar(kept[i])

Schema ==
    \E name \in SchemaArgs :
        IF ~ValidSchema(name) THEN Raised("schema", ErrSchema)
        ELSE Chained("schema", [q EXCEPT !.schema = Some(name)])

Select == Chained("select", [q EXCEPT !.select = @ \o <<Col(User, S_x)>>])

WithOrm == \E enabled \in BOOLEAN : Chained("with_orm", [q EXCEPT !.enable_orm = enabled])

Options ==
    Chained("options", [q EXCEPT !.load_options =
        @ \o <<Expr("joinedload", "", "User", <<>>, NoneVal, <<>>)>>])

Where == \E conditions \in WhereArgs : Chained("where", [q EXCEPT !.where = @ \o conditions])

OrWhere ==
    \E conditions \in OrWhereArgs : Chained("or_where", [q EXCEPT !.or_where = @ \o conditions])

JoinEntry(join_type, model, onclause) ==
    [join_type |-> join_type, model |-> model, onclause |-> onclause]

Join == Chained("join", [q EXCEPT !.joins = Append(@, JoinEntry("inner", Post, OnPost))])
LeftJoin == Chained("left_join", [q EXCEPT !.joins = Append(@, JoinEntry("left", Post, OnPost))])
InnerJoin ==
    Chained("inner_join", [q EXCEPT !.joins = Append(@, JoinEntry("inner", Post, OnPost))])
RightJoin ==
    Chained("right_join", [q EXCEPT !.joins = Append(@, JoinEntry("right", Post, OnPost))])
FullJoin == Chained("full_join", [q EXCEPT !.joins = Append(@, JoinEntry("full", Post, OnPost))])

OrderBy == Chained("order_by", [q EXCEPT !.order = @ \o <<Col(User, S_x)>>])
GroupBy == Chained("group_by", [q EXCEPT !.group_by = @ \o <<Col(User, S_x)>>])
Having ==
    Chained("having", [q EXCEPT !.having =
        @ \o <<Cmp("gt", Func("count", Col(User, S_id)), IntVal("1"))>>])

\* the outcome of a chain method: the builder it returns, or the ValueError
Built(b) == [ok |-> TRUE, err |-> "", b |-> b]
Refused(err, b) == [ok |-> FALSE, err |-> err, b |-> b]

\* a chain call with outcome r
ChainArgs(op, args, r) ==
    IF r.ok THEN ChainedArgs(op, args, r.b)
    ELSE /\ Open
         /\ q' = r.b
         /\ last' = CallArgs(op, args, "raise", r.err)
         /\ executed' = <<>>
         /\ commits' = 0
         /\ UNCHANGED db_rows
         /\ NoOutputs

Chain(op, r) == ChainArgs(op, NoArgs, r)

\* a limit() that stores whatever it is given
limit_unchecked(b, value) == Built([b EXCEPT !.limit = Some(value)])

\* limit(value) and offset(value)
limit(b, value) ==
    IF ~IsInt(value) \/ value.n < 1 THEN Refused(ErrLimit, b)
    ELSE Built([b EXCEPT !.limit = Some(value)])

offset(b, value) ==
    IF ~IsInt(value) \/ value.n < 0 THEN Refused(ErrOffset, b)
    ELSE Built([b EXCEPT !.offset = Some(value)])

ValueArg(value) == [NoArgs EXCEPT !.value = Some(value)]

LimitCall(values) == \E value \in values : ChainArgs("limit", ValueArg(value), limit(q, value))
OffsetCall(values) == \E value \in values : ChainArgs("offset", ValueArg(value), offset(q, value))
\* take() and skip() are limit() and offset()
TakeCall(values) == \E value \in values : ChainArgs("take", ValueArg(value), limit(q, value))
SkipCall(values) == \E value \in values : ChainArgs("skip", ValueArg(value), offset(q, value))

Limit == LimitCall({PyInt(0), PyInt(1)})
Offset == OffsetCall({PyInt(-1), PyInt(0)})
Take == TakeCall({PyInt(0), PyInt(1)})
Skip == SkipCall({PyInt(-1), PyInt(0)})

\* where_in(column, values) and where_not_in(column, values)
where_in(b, column, values) ==
    Built([b EXCEPT !.where =
              Append(@, Cmp("in", column,
                            IF ~IsListOrTuple(values) THEN Singleton(values) ELSE values))])

where_not_in(b, column, values) ==
    Built([b EXCEPT !.where =
              Append(@, Cmp("notin", column,
                            IF ~IsListOrTuple(values) THEN Singleton(values) ELSE values))])

ErrWhereBetween == "between requires [min, max] values"
ErrWhereNotBetween == "not_between requires [min, max] values"

\* a where_between that hands whatever it is given to column.between
where_between_unchecked(b, column, values) ==
    Built([b EXCEPT !.where = Append(@, Cmp("between", column, values))])

\* where_between(column, values) and where_not_between(column, values)
where_between(b, column, values) ==
    IF ~IsPair(values) THEN Refused(ErrWhereBetween, b)
    ELSE Built([b EXCEPT !.where = Append(@, Cmp("between", column, values))])

where_not_between(b, column, values) ==
    IF ~IsPair(values) THEN Refused(ErrWhereNotBetween, b)
    ELSE Built([b EXCEPT !.where = Append(@, Not(Cmp("between", column, values)))])

\* a union that adds its arguments to the members the builder has
set_union_cumulative(b, queries, union_all) ==
    IF \E i \in 1..Len(queries) : ~queries[i].is_table_query THEN Refused(ErrUnion, b)
    ELSE Built([b EXCEPT !.union_queries = @ \o queries, !.union_all = union_all])

\* union(*queries) and union_all(*queries): union_all is the flag they set
set_union(b, queries, union_all) ==
    IF \E i \in 1..Len(queries) : ~queries[i].is_table_query THEN Refused(ErrUnion, b)
    ELSE Built([b EXCEPT !.union_queries = queries, !.union_all = union_all])

QueriesArg(queries) == [NoArgs EXCEPT !.queries = queries]

UnionCall(args) ==
    \E queries \in args : ChainArgs("union", QueriesArg(queries), set_union(q, queries, FALSE))
UnionAllCall(args) ==
    \E queries \in args :
        ChainArgs("union_all", QueriesArg(queries), set_union(q, queries, TRUE))

Union == UnionCall(UnionArgs)
UnionAll == UnionAllCall(UnionArgs)

\* key.split("__"), then the column path and the operator of a filter key
parse_key(key) ==
    LET parts == SplitDunder(key)
    IN  [col_name |-> IF Len(parts) > 1 THEN JoinDunder(SubSeq(parts, 1, Len(parts) - 1))
                      ELSE parts[1],
         op |-> IF Len(parts) > 1 THEN parts[Len(parts)] ELSE <<"e", "q">>]

\* the expression of one filter entry whose value is not None
filter_expression(b, entry) ==
    LET parsed == parse_key(entry.key)
        names == SplitFirstDot(parsed.col_name)
        column == get_column_from_model(b.base_table, b.joins, names[1], names[2])
    IN  IF ~HasDot(parsed.col_name) THEN Raise(ErrFilterKey)
        ELSE IF ~column.ok THEN column
        ELSE build_filter_expression(column.expr, parsed.op, entry.value)

\* a loop of apply_filters that builds an expression from every entry, the
\* entries whose value is None included
RECURSIVE filter_expressions_all(_, _, _, _)
filter_expressions_all(b, filters, i, expressions) ==
    IF i > Len(filters) THEN [ok |-> TRUE, err |-> "", expressions |-> expressions]
    ELSE LET e == filter_expression(b, filters[i])
         IN  IF ~e.ok THEN [ok |-> FALSE, err |-> e.err, expressions |-> expressions]
             ELSE filter_expressions_all(b, filters, i + 1, Append(expressions, e.expr))

\* the loop of apply_filters from entry i on, expressions being the list so
\* far: the whole list, or the first error
RECURSIVE filter_expressions(_, _, _, _)
filter_expressions(b, filters, i, expressions) ==
    IF i > Len(filters) THEN [ok |-> TRUE, err |-> "", expressions |-> expressions]
    ELSE IF filters[i].value = NoneVal THEN filter_expressions(b, filters, i + 1, expressions)
    ELSE LET e == filter_expression(b, filters[i])
         IN  IF ~e.ok THEN [ok |-> FALSE, err |-> e.err, expressions |-> expressions]
             ELSE filter_expressions(b, filters, i + 1, Append(expressions, e.expr))

\* an apply_filters that extends a group with every expression of the call
append_each(b, expressions, use_or) ==
    IF expressions = <<>> THEN b
    ELSE IF use_or THEN [b EXCEPT !.or_where = @ \o expressions]
    ELSE [b EXCEPT !.where = @ \o expressions]

\* what apply_filters does with the expressions of a call
append_combined(b, expressions, use_or) ==
    IF expressions = <<>> THEN b
    ELSE IF use_or THEN [b EXCEPT !.or_where = Append(@, or_(expressions))]
    ELSE [b EXCEPT !.where = Append(@, and_(expressions))]

\* an apply_filters that extends the group entry by entry, as the loop goes
apply_filters_eager(b, filters, use_or) ==
    LET r == filter_expressions(b, filters, 1, <<>>)
    IN  IF ~r.ok THEN Refused(r.err, append_each(b, r.expressions, use_or))
        ELSE Built(append_each(b, r.expressions, use_or))

apply_filters(b, filters, use_or) ==
    LET r == filter_expressions(b, filters, 1, <<>>)
    IN  IF ~r.ok THEN Refused(r.err, b) ELSE Built(append_combined(b, r.expressions, use_or))

ApplyFilters ==
    /\ Open
    /\ \E filters \in FilterArgs, use_or \in BOOLEAN :
        ChainArgs("apply_filters", [NoArgs EXCEPT !.filters = filters, !.use_or = use_or],
                  apply_filters(q, filters, use_or))

(***************************************************************************)
(* Terminal methods: reads                                                 *)
(***************************************************************************)
\* self after a read terminal: the code calls cloned._reset_state(), which
\* resets the clone it built the statement from, and assigns nothing to self
after_read(self, cloned) == self

\* the call ran to the point where the session has been handed stmts
Ran(call, b, stmts, ncommits) ==
    /\ Open
    /\ q' = b
    /\ last' = call
    /\ executed' = stmts
    /\ commits' = ncommits
    /\ UNCHANGED db_rows
    /\ NoOutputs

\* a read terminal that executes stmt once: the execute raises, or it returns
\* rows rows, which the method may refuse with error[rows]
ReadRows(op, stmt, error) ==
    \/ Ran(Call(op, "raise", ErrSession), q, <<stmt>>, 0)
    \/ \E rows \in DOMAIN error :
           IF error[rows] # ""
           THEN Ran(Call(op, "raise", error[rows]), after_read(q, clone(q)), <<stmt>>, 0)
           ELSE Ran(Call(op, "ok", ""), after_read(q, clone(q)), <<stmt>>, 0)

NoError(rows) == ""
ErrIfNone(rows) == IF rows = 0 THEN ErrNoRecord ELSE ""
ErrUnlessOne(rows) == IF rows = 0 THEN ErrNoRecord ELSE IF rows > 1 THEN ErrManyRecords ELSE ""

Read(op, stmt) == ReadRows(op, stmt, [rows \in {1} |-> NoError(rows)])

\* the terminals that hand _build_query's statement to the session;
\* _build_query raises when the base table is not set
All == IF q.base_table = NoTable THEN Raised("all", ErrBaseTable)
       ELSE Read("all", build_query(clone(q)))

Get == IF q.base_table = NoTable THEN Raised("get", ErrBaseTable)
       ELSE Read("get", build_query(clone(q)))

First == IF q.base_table = NoTable THEN Raised("first", ErrBaseTable)
         ELSE Read("first", build_query(clone(q)))

FirstOrFail ==
    IF q.base_table = NoTable THEN Raised("first_or_fail", ErrBaseTable)
    ELSE ReadRows("first_or_fail", build_query(clone(q)), [rows \in 0..1 |-> ErrIfNone(rows)])

OneOrFail ==
    IF q.base_table = NoTable THEN Raised("one_or_fail", ErrBaseTable)
    ELSE ReadRows("one_or_fail", build_query(clone(q)), [rows \in 0..2 |-> ErrUnlessOne(rows)])

\* the statement of find(id)
find_query(b, id) ==
    [StmtWhere(build_query(clone(b)), Cmp("eq", Col(b.base_table, S_id), id))
        EXCEPT !.limit = Some(PyInt(1))]

Find ==
    IF q.base_table = NoTable THEN Raised("find", ErrBaseTable)
    ELSE IF S_id \notin q.base_table.attrs THEN Raised("find", ErrNoId)
    ELSE Read("find", find_query(q, IntVal("1")))

FindOrFail ==
    IF q.base_table = NoTable THEN Raised("find_or_fail", ErrBaseTable)
    ELSE IF S_id \notin q.base_table.attrs THEN Raised("find_or_fail", ErrNoId)
    ELSE ReadRows("find_or_fail", find_query(q, IntVal("1")), [rows \in 0..1 |-> ErrIfNone(rows)])

LastRow == IF q.base_table = NoTable THEN Raised("last", ErrBaseTable)
           ELSE Read("last", build_query(clone(q)))

Count == IF q.base_table = NoTable THEN Raised("count", ErrBaseTable)
         ELSE Read("count", count_query(clone(q)))

Exists == IF q.base_table = NoTable THEN Raised("exists", ErrBaseTable)
          ELSE Read("exists", count_query(clone(q)))

Max == IF q.base_table = NoTable THEN Raised("max", ErrBaseTable)
       ELSE Read("max", aggregate_query(clone(q), "max", Col(User, S_x)))

Min == IF q.base_table = NoTable THEN Raised("min", ErrBaseTable)
       ELSE Read("min", aggregate_query(clone(q), "min", Col(User, S_x)))

Sum == IF q.base_table = NoTable THEN Raised("sum", ErrBaseTable)
       ELSE Read("sum", aggregate_query(clone(q), "sum", Col(User, S_x)))

Avg == IF q.base_table = NoTable THEN Raised("avg", ErrBaseTable)
       ELSE Read("avg", aggregate_query(clone(q), "avg", Col(User, S_x)))

Distinct ==
    IF q.base_table = NoTable THEN Raised("distinct", ErrBaseTable)
    ELSE \E columns \in {<<>>, <<Col(User, S_x)>>} :
             Read("distinct", distinct_query(q, clone(q), columns))

DistinctBy ==
    IF q.base_table = NoTable THEN Raised("distinct_by", ErrBaseTable)
    ELSE Read("distinct_by", build_query(clone(q)))

GroupAndDeduplicate ==
    IF q.base_table = NoTable THEN Raised("group_and_deduplicate", ErrBaseTable)
    ELSE Read("group_and_deduplicate", build_query(clone(q)))

\* to_sql(dialect): the statement, the dialect it is compiled for
S_postgresql == <<"p", "o", "s", "t", "g", "r", "e", "s", "q", "l">>
S_postgres == <<"p", "o", "s", "t", "g", "r", "e", "s">>
S_mysql == <<"m", "y", "s", "q", "l">>
S_sqlite == <<"s", "q", "l", "i", "t", "e">>

\* a dialect lookup that falls back to sqlite
dialect_map_sqlite(dialect) ==
    CASE Lower(dialect) = S_postgresql -> "postgresql"
      [] Lower(dialect) = S_postgres -> "postgresql"
      [] Lower(dialect) = S_mysql -> "mysql"
      [] Lower(dialect) = S_sqlite -> "sqlite"
      [] OTHER -> "sqlite"

dialect_map(dialect) ==
    CASE Lower(dialect) = S_postgresql -> "postgresql"
      [] Lower(dialect) = S_postgres -> "postgresql"
      [] Lower(dialect) = S_mysql -> "mysql"
      [] Lower(dialect) = S_sqlite -> "sqlite"
      [] OTHER -> "postgresql"

\* whether the values of the predicates of stmt can be written into the
\* text: compile(..., literal_binds=True) raises for a value it has no
\* literal form for
Renderable(stmt) ==
    \A i \in 1..Len(stmt.where) : \A a \in Atoms(stmt.where[i]) : a.val.t # "object"

\* what to_sql(dialect, show_params) compiles for a builder with a base
\* relation: the statement, the dialect, and whether the values are in the
\* text; the except branch compiles without them
to_sql(b, dialect, show_params) ==
    [stmt |-> build_query(b), dialect |-> dialect_map(dialect),
     literal_binds |-> show_params /\ Renderable(build_query(b)), form |-> "text"]

\* what build_subquery() returns for a builder with a base relation
build_subquery(b) ==
    [stmt |-> build_query(b), dialect |-> "", literal_binds |-> FALSE, form |-> "subquery"]

ToSql ==
    IF q.base_table = NoTable THEN Raised("to_sql", ErrBaseTable)
    ELSE \E dialect \in {S_postgresql, S_sqlite, <<"x">>} :
             /\ Open
             /\ q' = q
             /\ last' = Call("to_sql", "ok", "")
             /\ executed' = <<>>
             /\ commits' = 0
             /\ compiled' = Some(to_sql(q, dialect, FALSE))
             /\ returned' = <<>>
             /\ batches' = <<>>
             /\ page_meta' = None
             /\ resolved' = None
             /\ UNCHANGED db_rows
             /\ UNCHANGED txvars

(***************************************************************************)
(* Terminal methods: paginate                                              *)
(***************************************************************************)
\* per_page when the argument is below 1
DefaultPerPage == 10

\* a // b
FloorDiv(a, b) == a \div b

\* math.ceil(a / b) for a >= 0 and b >= 1
Ceil(a, b) == (a + b - 1) \div b

ErrSelectFrom == "select_from(None)"

\* the metadata paginate computes from its arguments and the count it reads
pagination(page_arg, per_page_arg, total_records) ==
    LET page == IF page_arg < 1 THEN 1 ELSE page_arg
        per_page == IF per_page_arg < 1 THEN DefaultPerPage ELSE per_page_arg
        total_pages == IF total_records # 0 THEN Ceil(total_records, per_page) ELSE 1
        has_more == page < total_pages
    IN  [total_records |-> total_records,
         limit |-> per_page,
         offset |-> (page - 1) * per_page,
         has_more |-> has_more,
         total_pages |-> total_pages,
         current_page |-> page,
         first_page |-> 1,
         previous_page |-> IF page > 1 THEN Some(page - 1) ELSE None,
         next_page |-> IF has_more THEN Some(page + 1) ELSE None,
         last_page |-> total_pages]

\* a page statement that keeps a limit and an offset the builder already has
page_query_kept(b, meta) ==
    LET stmt == build_query(clone(b))
    IN  [stmt EXCEPT !.limit = IF @ = None THEN Some(PyInt(meta.limit)) ELSE @,
                     !.offset = IF @ = None THEN Some(PyInt(meta.offset)) ELSE @]

\* the page statement: _build_query of the clone with limit and offset replaced
page_query(b, meta) ==
    [build_query(clone(b)) EXCEPT !.limit = Some(PyInt(meta.limit)),
                                  !.offset = Some(PyInt(meta.offset))]

\* paginate(page, per_page) when the count statement returns total and the
\* session raises at its fail-th execute (0: at none)
PaginateCall(page, per_page, total, fail) ==
    LET args == [NoArgs EXCEPT !.page = page, !.per_page = per_page]
        meta == pagination(page, per_page, total)
    IN  IF q.base_table = NoTable
        THEN RaisedArgs("paginate", args, IF q.group_by # <<>> THEN ErrSelectFrom ELSE ErrNoneId)
        ELSE /\ Open
             /\ q' = IF fail = 0 THEN reset_state ELSE q
             /\ last' = CallArgs("paginate", args, IF fail = 0 THEN "ok" ELSE "raise",
                                 IF fail = 0 THEN "" ELSE ErrSession)
             /\ executed' = IF fail = 1 THEN <<count_query(clone(q))>>
                            ELSE <<count_query(clone(q)), page_query(q, meta)>>
             /\ commits' = 0
             /\ page_meta' = IF fail = 0 THEN Some(meta) ELSE None
             /\ returned' = <<>>
             /\ batches' = <<>>
             /\ compiled' = None
             /\ resolved' = None
             /\ UNCHANGED db_rows
             /\ UNCHANGED txvars

Paginate ==
    /\ Open
    /\ \E page \in {0, 2}, per_page \in {0, 1}, total \in {0, 3}, fail \in 0..2 :
        /\ (fail # 0 \/ q.base_table = NoTable) => (page = 2 /\ per_page = 1 /\ total = 0)
        /\ (fail # 0 /\ q.base_table = NoTable) => fail = 1
        /\ PaginateCall(page, per_page, total, fail)

(***************************************************************************)
(* Terminal methods: mutations                                             *)
(***************************************************************************)
\* where a mutation ends: returned or raised, the builder it leaves, the
\* statements it handed to execute, its commit calls, the table
Outcome(status, error, b, stmts, ncommits, db) ==
    [status |-> status, error |-> error, b |-> b, stmts |-> stmts,
     ncommits |-> ncommits, db |-> db]

Fails(error, b, stmts, ncommits, db) == Outcome("raise", error, b, stmts, ncommits, db)

Done(op, args, o) ==
    /\ Open
    /\ q' = o.b
    /\ last' = CallArgs(op, args, o.status, o.error)
    /\ executed' = o.stmts
    /\ commits' = o.ncommits
    /\ db_rows' = o.db

\* a row of the table
Row(id, tag) == [id |-> id, tag |-> tag]

\* the table after INSERT of the mappings of rows, ids in input order
Inserted(db, rows) == db \o [i \in 1..Len(rows) |-> Row(Len(db) + i, rows[i].tag)]

\* hasattr(base_table, key) for every key
KeysExist(b, data) == data.keys \subseteq b.base_table.attrs

\* a guard that lets every builder through
NoPredicateUnchecked(b) == FALSE

\* the builder has no predicate: not self._where and not self._or_where
NoPredicate(b) == b.where = <<>> /\ b.or_where = <<>>

insert_stmt(b, data) == StmtSchema([insert(b.base_table) EXCEPT !.values = Some(data)], b.schema)
returning(stmt) == [stmt EXCEPT !.returning = TRUE]
select_by_id(b, id) == StmtWhere(select(<<Entity(b.base_table)>>), Cmp("eq", Col(b.base_table, S_id), id))

\* dict(row) of a row the library does not convert
ErrConvert == "cannot convert dictionary update sequence element"

\* the except branch of create: INSERT of the statement built from b, commit,
\* select by lastrowid on self, reset, dict(row).  It raises at its fail-th
\* step (0: at none) of execute, commit, execute, dict(row); before lists
\* the statements and commits of the try branch, db the table it left
create_fallback(b, self, db, data, before, ncommits, fail) ==
    LET stmt == insert_stmt(b, data)
        db1 == Inserted(db, <<data>>)
        sel == select_by_id(self, Val("int", <<"lastrowid">>))
    IN  IF fail = 1 THEN Fails(ErrSession, self, before \o <<stmt>>, ncommits, db)
        ELSE IF fail = 2 THEN Fails(ErrSession, self, before \o <<stmt>>, ncommits + 1, db1)
        ELSE IF self.base_table = NoTable
        THEN Fails(ErrNoneId, self, before \o <<stmt>>, ncommits + 1, db1)
        ELSE IF fail = 3
        THEN Fails(ErrSession, self, before \o <<stmt, sel>>, ncommits + 1, db1)
        ELSE IF fail = 4
        THEN Fails(ErrConvert, reset_state, before \o <<stmt, sel>>, ncommits + 1, db1)
        ELSE Outcome("ok", "", reset_state, before \o <<stmt, sel>>, ncommits + 1, db1)

\* create(data): try_fail is the step of the try branch that raises (0: none,
\* 1: the execute, 2: the commit, 3: dict(row), after the reset), kept tells
\* whether the row of a RETURNING insert whose commit raised is still in the
\* table
create(b, db, data, try_fail, kept, fail) ==
    LET ret == returning(insert_stmt(b, data))
        db1 == Inserted(db, <<data>>)
    IN  IF b.base_table = NoTable THEN Fails(ErrBaseTable, b, <<>>, 0, db)
        ELSE IF data.keys = {} THEN Fails(ErrDataEmpty, b, <<>>, 0, db)
        ELSE IF ~KeysExist(b, data) THEN Fails(ErrColumn, b, <<>>, 0, db)
        ELSE CASE try_fail = 0 -> Outcome("ok", "", reset_state, <<ret>>, 1, db1)
               [] try_fail = 1 -> create_fallback(b, b, db, data, <<ret>>, 0, fail)
               [] try_fail = 2 ->
                    create_fallback(b, b, IF kept THEN db1 ELSE db, data, <<ret>>, 1, fail)
               [] OTHER -> create_fallback(b, reset_state, db1, data, <<ret>>, 1, fail)

\* the answers to a create call: try_fail, kept, fail
CreateScripts ==
    {<<0, TRUE, 0>>} \cup {<<1, TRUE, fail>> : fail \in 0..4}
    \cup {<<2, kept, fail>> : kept \in BOOLEAN, fail \in 0..4}
    \cup {<<3, TRUE, fail>> : fail \in 0..2}

\* the call raises before it reaches the session
Rejected(o) == o.status = "raise" /\ o.stmts = <<>>

Create ==
    /\ Open
    /\ \E data \in DataArgs, script \in CreateScripts :
        /\ Rejected(create(q, db_rows, data, 0, TRUE, 0)) => script = <<0, TRUE, 0>>
        /\ Done("create", [NoArgs EXCEPT !.data = <<data>>],
                create(q, db_rows, data, script[1], script[2], script[3]))
        /\ NoOutputs

\* update(data): the session raises at its fail-th call (0: at none) of
\* execute(id_stmt), execute(stmt), commit, execute(select_stmt)
update_stmts(b, data) ==
    LET id_stmt == apply_where(select(<<Col(b.base_table, S_id)>>), b.where, b.or_where)
        stmt == StmtSchema(apply_where([update(b.base_table) EXCEPT !.values = Some(data)],
                                       b.where, b.or_where), b.schema)
        select_stmt == StmtWhere(select(<<Entity(b.base_table)>>),
                                 Cmp("in", Col(b.base_table, S_id), Val("list", <<"affected_ids">>)))
    IN  <<id_stmt, stmt, select_stmt>>

\* an update that returns without resetting the builder
update_rows_keeps(b, db, data, fail) ==
    LET s == update_stmts(b, data)
    IN  IF b.base_table = NoTable THEN Fails(ErrBaseTable, b, <<>>, 0, db)
        ELSE IF data.keys = {} THEN Fails(ErrDataEmpty, b, <<>>, 0, db)
        ELSE IF NoPredicate(b) THEN Fails(ErrWhereUpdate, b, <<>>, 0, db)
        ELSE IF ~KeysExist(b, data) THEN Fails(ErrColumn, b, <<>>, 0, db)
        ELSE CASE fail = 1 -> Fails(ErrSession, b, <<s[1]>>, 0, db)
               [] fail = 2 -> Fails(ErrSession, b, <<s[1], s[2]>>, 0, db)
               [] fail = 3 -> Fails(ErrSession, b, <<s[1], s[2]>>, 1, db)
               [] fail = 4 -> Fails(ErrSession, b, s, 1, db)
               [] OTHER -> Outcome("ok", "", b, s, 1, db)

update_rows(b, db, data, fail) ==
    LET s == update_stmts(b, data)
    IN  IF b.base_table = NoTable THEN Fails(ErrBaseTable, b, <<>>, 0, db)
        ELSE IF data.keys = {} THEN Fails(ErrDataEmpty, b, <<>>, 0, db)
        ELSE IF NoPredicate(b) THEN Fails(ErrWhereUpdate, b, <<>>, 0, db)
        ELSE IF ~KeysExist(b, data) THEN Fails(ErrColumn, b, <<>>, 0, db)
        ELSE CASE fail = 1 -> Fails(ErrSession, b, <<s[1]>>, 0, db)
               [] fail = 2 -> Fails(ErrSession, b, <<s[1], s[2]>>, 0, db)
               [] fail = 3 -> Fails(ErrSession, b, <<s[1], s[2]>>, 1, db)
               [] fail = 4 -> Fails(ErrSession, b, s, 1, db)
               [] OTHER -> Outcome("ok", "", reset_state, s, 1, db)

Update ==
    /\ Open
    /\ \E data \in DataArgs, fail \in 0..4 :
        /\ Rejected(update_rows(q, db_rows, data, 0)) => fail = 0
        /\ Done("update", [NoArgs EXCEPT !.data = <<data>>], update_rows(q, db_rows, data, fail))
        /\ NoOutputs

\* self.where(self._base_table.id == id)
where_id(b, id) == [b EXCEPT !.where = Append(@, Cmp("eq", Col(b.base_table, S_id), id))]

update_by_id(b, db, id, data, fail) ==
    IF b.base_table = NoTable THEN Fails(ErrBaseTable, b, <<>>, 0, db)
    ELSE IF S_id \notin b.base_table.attrs THEN Fails(ErrNoId, b, <<>>, 0, db)
    ELSE IF data.keys = {} THEN Fails(ErrDataEmpty, b, <<>>, 0, db)
    ELSE update_rows(where_id(b, id), db, data, fail)

UpdateById ==
    /\ Open
    /\ ClauseCount(q) < MaxClauses
    /\ \E data \in DataArgs, fail \in 0..4 :
        /\ Rejected(update_by_id(q, db_rows, IntVal("1"), data, 0)) => fail = 0
        /\ Done("update_by_id", [NoArgs EXCEPT !.data = <<data>>],
                update_by_id(q, db_rows, IntVal("1"), data, fail))
        /\ NoOutputs

\* delete(): the session raises at its fail-th call (0: at none) of
\* execute(stmt), commit
delete_rows(b, db, fail) ==
    LET stmt == StmtSchema(apply_where(delete(b.base_table), b.where, b.or_where), b.schema)
    IN  IF b.base_table = NoTable THEN Fails(ErrBaseTable, b, <<>>, 0, db)
        ELSE IF NoPredicate(b) THEN Fails(ErrWhereDelete, b, <<>>, 0, db)
        ELSE CASE fail = 1 -> Fails(ErrSession, b, <<stmt>>, 0, db)
               [] fail = 2 -> Fails(ErrSession, b, <<stmt>>, 1, db)
               [] OTHER -> Outcome("ok", "", reset_state, <<stmt>>, 1, db)

Delete ==
    /\ Open
    /\ \E fail \in 0..2 :
        /\ Rejected(delete_rows(q, db_rows, 0)) => fail = 0
        /\ Done("delete", NoArgs, delete_rows(q, db_rows, fail))
        /\ NoOutputs

delete_by_id(b, db, id, fail) ==
    IF b.base_table = NoTable THEN Fails(ErrBaseTable, b, <<>>, 0, db)
    ELSE IF S_id \notin b.base_table.attrs THEN Fails(ErrNoId, b, <<>>, 0, db)
    ELSE delete_rows(where_id(b, id), db, fail)

DeleteById ==
    /\ Open
    /\ ClauseCount(q) < MaxClauses
    /\ \E fail \in 0..2 :
        /\ Rejected(delete_by_id(q, db_rows, IntVal("1"), 0)) => fail = 0
        /\ Done("delete_by_id", NoArgs, delete_by_id(q, db_rows, IntVal("1"), fail))
        /\ NoOutputs

(***************************************************************************)
(* create_many                                                             *)
(***************************************************************************)
\* chunk_size when the argument is not given
DefaultChunkSize == 1000

Least(a, b) == IF a < b THEN a ELSE b

\* the chunks _chunk yields: data[i:i + chunk_size] for i in
\* range(0, len(data), chunk_size); the range of a negative step is empty,
\* and that of step 0 raises before anything is yielded
chunk(data, chunk_size) ==
    IF chunk_size < 1 THEN <<>>
    ELSE [k \in 1..Ceil(Len(data), chunk_size) |->
            SubSeq(data, (k - 1) * chunk_size + 1, Least(k * chunk_size, Len(data)))]

\* the rows a RETURNING insert of a chunk returns: the rows it inserted, in
\* the order of the chunk
returning_rows(db, rows) == [i \in 1..Len(rows) |-> Row(Len(db) + i, rows[i].tag)]

\* select(base).order_by(id.desc()).limit(n) on the table
last_rows_desc(db, n) == [i \in 1..Least(n, Len(db)) |-> db[Len(db) - i + 1]]

\* what the session does with one chunk:
\*   returning          the RETURNING insert and its commit succeed
\*   fallback           the RETURNING execute raises, the except branch succeeds
\*   commit_kept        the RETURNING insert succeeds, its commit raises and
\*   commit_lost        leaves the rows in the table (kept) or not (lost),
\*                      and the except branch succeeds
\*   raise              the RETURNING execute and the plain execute both raise
\*   unconverted        both inserts and their commits succeed, and dict(row)
\*                      raises in the try branch and in the except branch
ChunkOutcomes == {"returning", "fallback", "commit_kept", "commit_lost", "raise", "unconverted"}

\* the state of the loop of create_many
Loop(status, error, stmts, ncommits, db, all_results, inserted) ==
    [status |-> status, error |-> error, stmts |-> stmts, ncommits |-> ncommits, db |-> db,
     all_results |-> all_results, inserted |-> inserted]

\* one iteration of the loop: the chunk rows under the outcome how
create_chunk(b, st, rows, how) ==
    LET stmt == [StmtSchema(insert(b.base_table), b.schema) EXCEPT !.params = rows]
        ret == returning(stmt)
        sel == [select(<<Entity(b.base_table)>>) EXCEPT
                    !.order_by = <<Func("desc", Col(b.base_table, S_id))>>,
                    !.limit = Some(PyInt(Len(rows)))]
        db_try == IF how = "commit_kept" THEN Inserted(st.db, rows) ELSE st.db
        db_fb == Inserted(db_try, rows)
    IN  CASE how = "returning" ->
                Loop("ok", "", st.stmts \o <<ret>>, st.ncommits + 1, Inserted(st.db, rows),
                     st.all_results \o returning_rows(st.db, rows), Append(st.inserted, rows))
          [] how = "raise" ->
                Loop("raise", ErrSession, st.stmts \o <<ret, stmt>>, st.ncommits, st.db,
                     st.all_results, st.inserted)
          [] how = "unconverted" ->
                Loop("raise", ErrConvert, st.stmts \o <<ret, stmt, sel>>, st.ncommits + 2,
                     Inserted(Inserted(st.db, rows), rows), st.all_results,
                     st.inserted \o <<rows, rows>>)
          [] how = "fallback" ->
                Loop("ok", "", st.stmts \o <<ret, stmt, sel>>, st.ncommits + 1, db_fb,
                     st.all_results \o last_rows_desc(db_fb, Len(rows)),
                     Append(st.inserted, rows))
          [] OTHER ->
                Loop("ok", "", st.stmts \o <<ret, stmt, sel>>, st.ncommits + 2, db_fb,
                     st.all_results \o last_rows_desc(db_fb, Len(rows)),
                     (IF how = "commit_kept" THEN Append(st.inserted, rows) ELSE st.inserted)
                        \o <<rows>>)

\* the loop from chunk i on; it stops at the first chunk that raises
RECURSIVE create_chunks(_, _, _, _, _)
create_chunks(b, st, chunks, how, i) ==
    IF i > Len(chunks) \/ st.status = "raise" THEN st
    ELSE create_chunks(b, create_chunk(b, st, chunks[i], how[i]), chunks, how, i + 1)

ErrRangeStep == "range() arg 3 must not be zero"

\* a key check that looks at the rows of the first chunk only
unknown_key_in_chunk(b, data_list) == ~KeysExist(b, data_list[1])

\* the key loop of create_many: some row of data_list has a key the base
\* relation has no attribute for
unknown_key(b, data_list) == \E i \in 1..Len(data_list) : ~KeysExist(b, data_list[i])

\* create_many(data_list, chunk_size); how gives the session's outcome for
\* every chunk
create_many(b, db, data_list, chunk_size, how) ==
    LET st == create_chunks(b, Loop("ok", "", <<>>, 0, db, <<>>, <<>>),
                            chunk(data_list, chunk_size), how, 1)
    IN  IF b.base_table = NoTable
        THEN [o |-> Fails(ErrBaseTable, b, <<>>, 0, db), all_results |-> <<>>, inserted |-> <<>>]
        ELSE IF data_list = <<>>
        THEN [o |-> Fails(ErrDataListEmpty, b, <<>>, 0, db), all_results |-> <<>>,
              inserted |-> <<>>]
        ELSE IF unknown_key(b, data_list)
        THEN [o |-> Fails(ErrColumn, b, <<>>, 0, db), all_results |-> <<>>, inserted |-> <<>>]
        ELSE IF chunk_size = 0
        THEN [o |-> Fails(ErrRangeStep, b, <<>>, 0, db), all_results |-> <<>>, inserted |-> <<>>]
        ELSE IF st.status = "raise"
        THEN [o |-> Fails(st.error, b, st.stmts, st.ncommits, st.db),
              all_results |-> <<>>, inserted |-> st.inserted]
        ELSE [o |-> Outcome("ok", "", reset_state, st.stmts, st.ncommits, st.db),
              all_results |-> st.all_results, inserted |-> st.inserted]

\* create_many called with one of data_lists, one of chunk_sizes, and the
\* session answering every chunk with one of outcomes
CreateManyCall(data_lists, chunk_sizes, outcomes) ==
    /\ Open
    /\ \E data_list \in data_lists, chunk_size \in chunk_sizes :
        \E how \in [1..Len(chunk(data_list, chunk_size)) -> outcomes] :
            LET r == create_many(q, db_rows, data_list, chunk_size, how)
            IN  /\ Rejected(r.o) => \A i \in DOMAIN how : how[i] = "returning"
                /\ \A i \in DOMAIN how : how[i] \in {"raise", "unconverted"} =>
                        \A j \in DOMAIN how : j > i => how[j] = "returning"
                /\ Done("create_many",
                        [NoArgs EXCEPT !.data = data_list, !.chunk_size = chunk_size], r.o)
                /\ returned' = r.all_results
                /\ batches' = r.inserted
                /\ page_meta' = None
                /\ compiled' = None
                /\ resolved' = None
                /\ UNCHANGED txvars

\* n valid rows, told apart by their tags
ValidRows(n) == [i \in 1..n |-> Data({S_x}, i)]

\* the data lists of the builder specification: no row, two valid rows, and a
\* list with a row whose key is no column
DataLists == {<<>>, ValidRows(2), <<Data({S_x}, 1), Data({<<"n", "o">>}, 2)>>}

CreateMany == CreateManyCall(DataLists, {1, DefaultChunkSize}, {"returning", "fallback", "raise"})

(***************************************************************************)
(* The builder specification                                               *)
(***************************************************************************)
Next ==
    \/ New \/ Table \/ Schema \/ Select \/ WithOrm \/ Options
    \/ Where \/ OrWhere
    \/ Join \/ LeftJoin \/ InnerJoin \/ RightJoin \/ FullJoin
    \/ OrderBy \/ GroupBy \/ Having
    \/ Limit \/ Offset \/ Take \/ Skip
    \/ Union \/ UnionAll
    \/ ApplyFilters
    \/ All \/ Get \/ First \/ FirstOrFail \/ OneOrFail \/ Find \/ FindOrFail \/ LastRow
    \/ Count \/ Exists \/ Max \/ Min \/ Sum \/ Avg
    \/ Distinct \/ DistinctBy \/ GroupAndDeduplicate
    \/ ToSql
    \/ Paginate
    \/ Create \/ CreateMany \/ Update \/ UpdateById \/ Delete \/ DeleteById

Spec == Init /\ [][Next]_vars

(***************************************************************************)
(* The resolver specification: get_column_from_model on builders with any  *)
(* base relation and any joins                                             *)
(***************************************************************************)
\* the relations a join is made to
JoinModels == {UserAlias, SubUs, SubA, Post}

JoinLists == UNION {[1..n -> {JoinEntry("left", m, OnPost) : m \in JoinModels}] : n \in 0..MaxJoins}

\* the table names and the column names of the filter keys
TableNames == {S_us, <<"U", "s">>, <<"U">>, <<"u">>, <<"A">>, <<"a">>, S_ps, S_unknown}
ColumnNames == {S_x, S_t, <<"n", "o">>}

InitResolve ==
    /\ q \in {[reset_state EXCEPT !.base_table = base, !.joins = joins] :
                base \in {NoTable, User, Post, SubA}, joins \in JoinLists}
    /\ last = Call("__init__", "ok", "")
    /\ executed = <<>>
    /\ commits = 0
    /\ db_rows = <<>>
    /\ returned = <<>>
    /\ batches = <<>>
    /\ page_meta = None
    /\ compiled = None
    /\ resolved = None
    /\ InitTransactions

\* a call of get_column_from_model(self._base_table, self._joins, ...)
GetColumnFromModel ==
    \E table_name \in TableNames, column_name \in ColumnNames :
        LET r == get_column_from_model(q.base_table, q.joins, table_name, column_name)
        IN  /\ resolved' = Some([table_name |-> table_name, column_name |-> column_name,
                                 ok |-> r.ok, err |-> r.err, expr |-> r.expr,
                                 available |-> IF r.err = ErrUnknownTable
                                               THEN get_available_tables(q.base_table, q.joins)
                                               ELSE <<>>])
            /\ last' = Call("get_column_from_model", IF r.ok THEN "ok" ELSE "raise", r.err)
            /\ UNCHANGED <<q, executed, commits, db_rows, returned, batches, page_meta, compiled>>
            /\ UNCHANGED txvars

NextResolve == GetColumnFromModel

SpecResolve == InitResolve /\ [][NextResolve]_vars

(***************************************************************************)
(* The pagination specification: paginate with any page, per_page and      *)
(* record count                                                            *)
(***************************************************************************)
InitPaginate ==
    /\ q \in {[reset_state EXCEPT !.base_table = User],
              [reset_state EXCEPT !.base_table = User, !.where = <<CondX>>],
              [reset_state EXCEPT !.base_table = User, !.limit = Some(PyInt(MaxPage + 1)),
                                  !.offset = Some(PyInt(MaxTotal + 1))]}
    /\ last = Call("table", "ok", "")
    /\ executed = <<>>
    /\ commits = 0
    /\ db_rows = <<>>
    /\ returned = <<>>
    /\ batches = <<>>
    /\ page_meta = None
    /\ compiled = None
    /\ resolved = None
    /\ InitTransactions

PaginateAny ==
    /\ Open
    /\ \E page \in -1..MaxPage, per_page \in -1..MaxPage, total \in 0..MaxTotal, fail \in 0..2 :
        /\ fail # 0 => total = 0
        /\ PaginateCall(page, per_page, total, fail)

NextPaginate == PaginateAny

SpecPaginate == InitPaginate /\ [][NextPaginate]_vars

(***************************************************************************)
(* The batching specification: create_many with any number of rows, any    *)
(* chunk size and any answers of the session                               *)
(***************************************************************************)
InitCreateMany ==
    /\ q \in {[reset_state EXCEPT !.base_table = User],
              [reset_state EXCEPT !.base_table = User, !.schema = Some(<<"t", "_", "1">>)]}
    /\ last = Call("table", "ok", "")
    /\ executed = <<>>
    /\ commits = 0
    /\ db_rows \in OldTables
    /\ returned = <<>>
    /\ batches = <<>>
    /\ page_meta = None
    /\ compiled = None
    /\ resolved = None
    /\ InitTransactions

CreateManyAny ==
    CreateManyCall({ValidRows(n) : n \in 0..MaxBatchRows}, 1..MaxChunk, ChunkOutcomes)

NextCreateMany == CreateManyAny

SpecCreateMany == InitCreateMany /\ [][NextCreateMany]_vars

\* create_many with a non-empty valid data list and any integer chunk size
CreateManyAnyChunk ==
    CreateManyCall({ValidRows(n) : n \in 1..MaxBatchRows}, (-MaxChunk)..MaxChunk, ChunkOutcomes)

NextChunkSize == CreateManyAnyChunk

SpecChunkSize == InitCreateMany /\ [][NextChunkSize]_vars

(***************************************************************************)
(* The range specification: where_between, where_not_between and           *)
(* apply_filters with a between or not_between key, with any value         *)
(***************************************************************************)
S_between == <<"b", "e", "t", "w", "e", "e", "n">>
S_not_between == <<"n", "o", "t", "_">> \o S_between

\* the values: None, 1, "ab", and lists and tuples of 0 to 3 items
RangeValues ==
    {NoneVal, IntVal("1"), StrVal("ab"), Val("list", <<>>), Val("list", <<"1">>),
     Val("list", <<"1", "5">>), Val("tuple", <<"1", "5">>), Val("tuple", <<"5", "1">>),
     Val("list", <<"1", "5", "9">>), Val("tuple", <<"1", "5", "9">>)}

RangeColumns == {S_x, S_y}

\* the filter key "us.<column>__<op>"
RangeKey(column_name, op) == S_us \o <<".">> \o column_name \o <<"_", "_">> \o op

RangeFilters(column_name, op, value) == <<Entry(RangeKey(column_name, op), value)>>

RangeArgs(column_name, value) == [NoArgs EXCEPT !.column = column_name, !.value = Some(value)]

\* the builder takes one more range predicate
RangeRoom == Len(q.where) < MaxRanges

WhereBetween ==
    /\ RangeRoom
    /\ \E column_name \in RangeColumns, value \in RangeValues :
        ChainArgs("where_between", RangeArgs(column_name, value),
                  where_between(q, Col(User, column_name), value))

WhereNotBetween ==
    /\ RangeRoom
    /\ \E column_name \in RangeColumns, value \in RangeValues :
        ChainArgs("where_not_between", RangeArgs(column_name, value),
                  where_not_between(q, Col(User, column_name), value))

ApplyFiltersRange ==
    /\ RangeRoom
    /\ \E column_name \in RangeColumns, value \in RangeValues, op \in {S_between, S_not_between} :
        LET filters == RangeFilters(column_name, op, value)
        IN  ChainArgs("apply_filters", [NoArgs EXCEPT !.filters = filters],
                      apply_filters(q, filters, FALSE))

InitRange ==
    /\ q \in {[reset_state EXCEPT !.base_table = User],
              [reset_state EXCEPT !.base_table = User, !.joins = <<JoinEntry("left", Post, OnPost)>>]}
    /\ last = Call("table", "ok", "")
    /\ executed = <<>>
    /\ commits = 0
    /\ db_rows = <<>>
    /\ returned = <<>>
    /\ batches = <<>>
    /\ page_meta = None
    /\ compiled = None
    /\ resolved = None
    /\ InitTransactions

NextRange == WhereBetween \/ WhereNotBetween \/ ApplyFiltersRange

SpecRange == InitRange /\ [][NextRange]_vars

(***************************************************************************)
(* The operator specification: build_filter_expression with any token      *)
(***************************************************************************)
\* the tokens of the operator table of the filter syntax
OperatorTable ==
    {<<"e", "q">>,
     <<"n", "e">>,
     <<"n", "e", "q">>,
     <<"g", "t">>,
     <<"g", "t", "e">>,
     <<"l", "t">>,
     <<"l", "t", "e">>,
     <<"l", "i", "k", "e">>,
     <<"i", "c", "o", "n", "t", "a", "i", "n", "s">>,
     <<"i", "n">>,
     <<"n", "o", "t", "i", "n">>,
     <<"i", "s">>,
     <<"i", "s", "n", "o", "t">>,
     <<"i", "s", "n", "u", "l", "l">>,
     <<"n", "o", "t", "n", "u", "l", "l">>,
     <<"s", "t", "a", "r", "t", "s", "w", "i", "t", "h">>,
     <<"e", "n", "d", "s", "w", "i", "t", "h">>,
     <<"c", "o", "n", "t", "a", "i", "n", "s">>,
     <<"r", "e", "g", "e", "x", "p">>,
     <<"b", "e", "t", "w", "e", "e", "n">>,
     <<"n", "o", "t", "_", "b", "e", "t", "w", "e", "e", "n">>}

\* tokens outside the table: the empty token, "not", "bad", "EQ", "equals",
\* "not_in", "ilike", "nin"
OtherTokens ==
    {<<>>,
     <<"n", "o", "t">>,
     <<"b", "a", "d">>,
     <<"E", "Q">>,
     <<"e", "q", "u", "a", "l", "s">>,
     <<"n", "o", "t", "_", "i", "n">>,
     <<"i", "l", "i", "k", "e">>,
     <<"n", "i", "n">>}

OperatorValues ==
    {NoneVal, IntVal("1"), StrVal("ab"), Val("list", <<"1", "5">>), Val("tuple", <<"1", "5">>),
     Val("list", <<"1">>)}

\* a call of build_filter_expression(column, op, value)
BuildFilterExpression ==
    \E op \in OperatorTable \cup OtherTokens, column_name \in RangeColumns,
       value \in OperatorValues :
        LET r == build_filter_expression(Col(User, column_name), op, value)
        IN  /\ resolved' = Some([op |-> op, column_name |-> column_name, value |-> value,
                                 ok |-> r.ok, err |-> r.err, expr |-> r.expr])
            /\ last' = Call("build_filter_expression", IF r.ok THEN "ok" ELSE "raise", r.err)
            /\ UNCHANGED <<q, executed, commits, db_rows, returned, batches, page_meta, compiled>>
            /\ UNCHANGED txvars

NextOperator == BuildFilterExpression

SpecOperator == InitRange /\ [][NextOperator]_vars

(***************************************************************************)
(* The filter-key specification: apply_filters with well-formed and        *)
(* malformed keys, known and unknown tables, and values that are None      *)
(***************************************************************************)
\* "us.x"
K_us_x == <<"u", "s", ".", "x">>
\* "x"
K_x == <<"x">>
\* "us.x.y__eq"
K_us_x_y_eq == <<"u", "s", ".", "x", ".", "y", "_", "_", "e", "q">>
\* "a.b.c__eq"
K_a_b_c_eq == <<"a", ".", "b", ".", "c", "_", "_", "e", "q">>
\* "zz.x__eq"
K_zz_x_eq == <<"z", "z", ".", "x", "_", "_", "e", "q">>
\* "us.no__eq"
K_us_no_eq == <<"u", "s", ".", "n", "o", "_", "_", "e", "q">>
\* "us.x__isnull"
K_us_x_isnull == <<"u", "s", ".", "x", "_", "_", "i", "s", "n", "u", "l", "l">>
\* "us.x__notnull"
K_us_x_notnull == <<"u", "s", ".", "x", "_", "_", "n", "o", "t", "n", "u", "l", "l">>
\* "us.x__is"
K_us_x_is == <<"u", "s", ".", "x", "_", "_", "i", "s">>
\* "us.x__isnot"
K_us_x_isnot == <<"u", "s", ".", "x", "_", "_", "i", "s", "n", "o", "t">>

FilterKeys ==
    {K_us_x_eq, K_x_eq, K_us_x_bad, K_us_x,
     K_x,
     K_us_x_y_eq,
     K_a_b_c_eq,
     K_zz_x_eq,
     K_us_no_eq,
     K_us_x_isnull,
     K_us_x_notnull,
     K_us_x_is,
     K_us_x_isnot}

FilterValues == {NoneVal, IntVal("1")}

\* the keys of the second entry of a mapping
\* "us.y__between"
K_us_y_between == <<"u", "s", ".", "y", "_", "_", "b", "e", "t", "w", "e", "e", "n">>

SecondKeys == {K_us_y_gt, K_x_eq, K_zz_x_eq, K_us_no_eq, K_us_x_bad, K_us_y_between}

\* the mappings of up to two entries: the keys of a dict are distinct
KeyFilters ==
    {<<>>}
    \cup {<<Entry(k, v)>> : k \in FilterKeys, v \in FilterValues}
    \cup {<<Entry(k[1], v[1]), Entry(k[2], v[2])>> :
            k \in {p \in FilterKeys \X SecondKeys : p[1] # p[2]},
            v \in FilterValues \X FilterValues}

ApplyFiltersKeys ==
    /\ Len(q.where) + Len(q.or_where) < MaxFiltered
    /\ \E filters \in KeyFilters, use_or \in BOOLEAN :
        ChainArgs("apply_filters", [NoArgs EXCEPT !.filters = filters, !.use_or = use_or],
                  apply_filters(q, filters, use_or))

\* db.table(User).where(User.x == 1) and db.table(User).or_where(User.z.ilike("%foo%"))
InitFilterKey ==
    /\ q \in {[reset_state EXCEPT !.base_table = User, !.where = <<CondX>>],
              [reset_state EXCEPT !.base_table = User, !.or_where = <<CondZ>>]}
    /\ last \in {Call("where", "ok", ""), Call("or_where", "ok", "")}
    /\ (last.op = "where") = (q.where # <<>>)
    /\ executed = <<>>
    /\ commits = 0
    /\ db_rows = <<>>
    /\ returned = <<>>
    /\ batches = <<>>
    /\ page_meta = None
    /\ compiled = None
    /\ resolved = None
    /\ InitTransactions

NextFilterKey == ApplyFiltersKeys

SpecFilterKey == InitFilterKey /\ [][NextFilterKey]_vars

(***************************************************************************)
(* The key-parsing specification: the parsing of a filter key, for every   *)
(* short key over a letter, the dot and the underscore                     *)
(***************************************************************************)
KeyAlphabet == {"a", ".", "_"}

\* "user.email__like" and "user.name"
K_user_email_like ==
    <<"u", "s", "e", "r", ".", "e", "m", "a", "i", "l", "_", "_", "l", "i", "k", "e">>
K_user_name == <<"u", "s", "e", "r", ".", "n", "a", "m", "e">>

KeyStrings ==
    UNION {[1..n -> KeyAlphabet] : n \in 0..MaxKeyLen} \cup {K_user_email_like, K_user_name}

\* the parsing apply_filters does of one key: the split at "__", and the
\* split of the column path at its first dot when it holds one
ParseKey ==
    \E key \in KeyStrings :
        LET parsed == parse_key(key)
        IN  /\ resolved' = Some([key |-> key, col_name |-> parsed.col_name, op |-> parsed.op,
                                 names |-> IF HasDot(parsed.col_name)
                                           THEN SplitFirstDot(parsed.col_name) ELSE <<>>])
            /\ last' = Call("parse_key", "ok", "")
            /\ UNCHANGED <<q, executed, commits, db_rows, returned, batches, page_meta, compiled>>
            /\ UNCHANGED txvars

NextParse == ParseKey

SpecParse == InitRange /\ [][NextParse]_vars

(***************************************************************************)
(* The membership specification: where_in, where_not_in and apply_filters  *)
(* with an in or notin key, with any value                                 *)
(***************************************************************************)
S_in == <<"i", "n">>
S_notin == <<"n", "o", "t", "i", "n">>

WhereIn ==
    /\ RangeRoom
    /\ \E column_name \in RangeColumns, value \in RangeValues :
        ChainArgs("where_in", RangeArgs(column_name, value),
                  where_in(q, Col(User, column_name), value))

WhereNotIn ==
    /\ RangeRoom
    /\ \E column_name \in RangeColumns, value \in RangeValues :
        ChainArgs("where_not_in", RangeArgs(column_name, value),
                  where_not_in(q, Col(User, column_name), value))

ApplyFiltersMember ==
    /\ RangeRoom
    /\ \E column_name \in RangeColumns, value \in RangeValues, op \in {S_in, S_notin} :
        LET filters == RangeFilters(column_name, op, value)
        IN  ChainArgs("apply_filters", [NoArgs EXCEPT !.filters = filters],
                      apply_filters(q, filters, FALSE))

NextMember == WhereIn \/ WhereNotIn \/ ApplyFiltersMember

SpecMember == InitRange /\ [][NextMember]_vars

(***************************************************************************)
(* The subquery specification: from_subquery and the where_*_subquery      *)
(* methods, with producers that return a subquery, return a mapped class   *)
(* or raise                                                                *)
(***************************************************************************)
\* what an invocation of a producer returns: an object by its name, by
\* whether hasattr(obj, "select") and whether it has the method alias, and by
\* the names of its columns; or the exception the producer raises
Produced(name, has_select, has_alias, attrs) ==
    [raises |-> FALSE, name |-> name, has_select |-> has_select, has_alias |-> has_alias,
     attrs |-> attrs]

ProducerRaises == [Produced("", FALSE, FALSE, {}) EXCEPT !.raises = TRUE]

\* select(Post.id).subquery(), and the mapped class Post
PostIds == Produced("select(Post.id).subquery()", TRUE, TRUE, {S_id})
PostClass == Produced("Post", FALSE, FALSE, {S_id, S_x, S_t})

ProducerOutcomes == {PostIds, PostClass, ProducerRaises}

ErrProducer == "the producer raised"
ErrNoAlias == "object has no attribute 'alias'"

\* subq.alias(subquery_alias)
Aliased(subq, subquery_alias) == Relation(subq.name, None, None, Some(subquery_alias), subq.attrs)

\* the outcome of a subquery method: the builder, the error, and the number
\* of invocations of the producer
Invoked(r, n) == [ok |-> r.ok, err |-> r.err, b |-> r.b, n |-> n]

\* a from_subquery that starts from a fresh clause set
from_subquery_reset(b, subquery_alias, subq) ==
    IF subq.raises THEN Invoked(Refused(ErrProducer, b), 1)
    ELSE IF ~subq.has_alias THEN Invoked(Refused(ErrNoAlias, b), 1)
    ELSE Invoked(Built([reset_state EXCEPT !.base_table = Aliased(subq, subquery_alias)]), 1)

\* from_subquery(subquery_alias, subquery_builder), subq being what the
\* producer returns
from_subquery(b, subquery_alias, subq) ==
    IF subq.raises THEN Invoked(Refused(ErrProducer, b), 1)
    ELSE IF ~subq.has_alias THEN Invoked(Refused(ErrNoAlias, b), 1)
    ELSE Invoked(Built([b EXCEPT !.base_table = Aliased(subq, subquery_alias),
                                 !.select = <<>>,
                                 !.joins = <<>>,
                                 !.where = <<>>,
                                 !.or_where = <<>>]), 1)

\* the object as the operand of IN or EXISTS, and select(obj).subquery()
Operand(subq) == Val("subquery", <<subq.name>>)
SelectOf(subq) == Val("select_subquery", <<subq.name>>)

\* EXISTS (subq)
sql_exists(subq) == Expr("exists", "", "", <<>>, Operand(subq), <<>>)

\* where_in_subquery(column, subquery_builder): first is what the producer
\* returns when it is invoked, second what it returns when invoked again
where_in_subquery(b, column, first, second) ==
    IF first.raises THEN Invoked(Refused(ErrProducer, b), 1)
    ELSE IF first.has_select
    THEN Invoked(Built([b EXCEPT !.where = Append(@, Cmp("in", column, Operand(first)))]), 1)
    ELSE IF second.raises THEN Invoked(Refused(ErrProducer, b), 2)
    ELSE Invoked(Built([b EXCEPT !.where = Append(@, Cmp("in", column, SelectOf(second)))]), 2)

where_exists_subquery(b, subq) ==
    IF subq.raises THEN Invoked(Refused(ErrProducer, b), 1)
    ELSE Invoked(Built([b EXCEPT !.where = Append(@, sql_exists(subq))]), 1)

where_not_exists_subquery(b, subq) ==
    IF subq.raises THEN Invoked(Refused(ErrProducer, b), 1)
    ELSE Invoked(Built([b EXCEPT !.where = Append(@, Not(sql_exists(subq)))]), 1)

\* a call of a subquery method with outcome r
SubqueryCall(op, r) ==
    /\ Open
    /\ Len(q.where) < MaxSubqueries
    /\ q' = r.b
    /\ last' = Call(op, IF r.ok THEN "ok" ELSE "raise", r.err)
    /\ invoked' = r.n
    /\ executed' = <<>>
    /\ commits' = 0
    /\ returned' = <<>>
    /\ batches' = <<>>
    /\ page_meta' = None
    /\ compiled' = None
    /\ resolved' = None
    /\ UNCHANGED <<db_rows, session, committed, frames, ctx, step, ncalls, update_call, appvars>>

FromSubquery ==
    \E subquery_alias \in {S_us, <<"A">>}, subq \in ProducerOutcomes :
        SubqueryCall("from_subquery", from_subquery(q, subquery_alias, subq))

WhereInSubquery ==
    \E column_name \in RangeColumns, first \in ProducerOutcomes, second \in ProducerOutcomes :
        /\ (first.raises \/ first.has_select) => second = first
        /\ SubqueryCall("where_in_subquery",
                        where_in_subquery(q, Col(User, column_name), first, second))

WhereExistsSubquery ==
    \E subq \in ProducerOutcomes :
        SubqueryCall("where_exists_subquery", where_exists_subquery(q, subq))

WhereNotExistsSubquery ==
    \E subq \in ProducerOutcomes :
        SubqueryCall("where_not_exists_subquery", where_not_exists_subquery(q, subq))

\* a builder with a base relation only, and one with every clause set
FullBuilder ==
    [schema |-> Some(<<"t", "_", "1">>),
     base_table |-> User,
     joins |-> <<JoinEntry("left", Post, OnPost)>>,
     where |-> <<CondX>>,
     or_where |-> <<CondZ>>,
     select |-> <<Col(User, S_x)>>,
     order |-> <<Col(User, S_x)>>,
     group_by |-> <<Col(User, S_x)>>,
     having |-> <<Cmp("gt", Func("count", Col(User, S_id)), IntVal("1"))>>,
     limit |-> Some(PyInt(1)),
     offset |-> Some(PyInt(0)),
     union_queries |-> <<UnionArg(TRUE, MemberPosts)>>,
     union_all |-> TRUE,
     load_options |-> <<Expr("joinedload", "", "User", <<>>, NoneVal, <<>>)>>,
     enable_orm |-> TRUE]

InitSubquery ==
    /\ q \in {[reset_state EXCEPT !.base_table = User], FullBuilder}
    /\ last = Call("table", "ok", "")
    /\ executed = <<>>
    /\ commits = 0
    /\ db_rows = <<>>
    /\ returned = <<>>
    /\ batches = <<>>
    /\ page_meta = None
    /\ compiled = None
    /\ resolved = None
    /\ InitTransactions

NextSubquery == FromSubquery \/ WhereInSubquery \/ WhereExistsSubquery \/ WhereNotExistsSubquery

SpecSubquery == InitSubquery /\ [][NextSubquery]_vars

(***************************************************************************)
(* The union specification: union and union_all called one after another   *)
(* with any arguments                                                      *)
(***************************************************************************)
\* a second builder passed to union(): db.table(User).where(User.x == 1)
MemberUsers == [reset_state EXCEPT !.base_table = User, !.where = <<CondX>>]

\* something that is no TableQuery
NoBuilder == UnionArg(FALSE, reset_state)

\* the argument lists: none, one or two builders, and lists that hold
\* something else
UnionLists ==
    {<<>>,
     <<UnionArg(TRUE, MemberPosts)>>,
     <<UnionArg(TRUE, MemberUsers)>>,
     <<UnionArg(TRUE, MemberPosts), UnionArg(TRUE, MemberUsers)>>,
     <<UnionArg(TRUE, MemberUsers), UnionArg(TRUE, MemberPosts)>>,
     <<UnionArg(TRUE, MemberPosts), UnionArg(TRUE, MemberPosts)>>,
     <<NoBuilder>>,
     <<UnionArg(TRUE, MemberPosts), NoBuilder>>,
     <<NoBuilder, UnionArg(TRUE, MemberPosts)>>}

UnionAny == UnionCall(UnionLists)
UnionAllAny == UnionAllCall(UnionLists)

\* db.table(User), and db.table(Post) after
\* union_all(db.table(User).where(...), db.table(Post).where(...))
InitUnion ==
    /\ q \in {[reset_state EXCEPT !.base_table = User],
              [reset_state EXCEPT !.base_table = Post,
                                  !.union_queries = <<UnionArg(TRUE, MemberUsers),
                                                      UnionArg(TRUE, MemberPosts)>>,
                                  !.union_all = TRUE]}
    /\ last \in {Call("table", "ok", ""), Call("union_all", "ok", "")}
    /\ (last.op = "table") = (q.union_queries = <<>>)
    /\ executed = <<>>
    /\ commits = 0
    /\ db_rows = <<>>
    /\ returned = <<>>
    /\ batches = <<>>
    /\ page_meta = None
    /\ compiled = None
    /\ resolved = None
    /\ InitTransactions

NextUnion == UnionAny \/ UnionAllAny

SpecUnion == InitUnion /\ [][NextUnion]_vars

(***************************************************************************)
(* The compile specification: to_sql and build_subquery called one after   *)
(* another on a builder, with any dialect name                             *)
(***************************************************************************)
\* "Postgres", "oracle" and "x"
DialectNames ==
    {S_postgresql, <<"P", "o", "s", "t", "g", "r", "e", "s">>, S_mysql, S_sqlite,
     <<"o", "r", "a", "c", "l", "e">>, <<"x">>}

\* the names dialect_map has an entry for
KnownDialects == {S_postgresql, S_postgres, S_mysql, S_sqlite}

\* User.y == obj for a value that has no literal form
CondObject == Cmp("eq", Col(User, S_y), Val("object", <<"obj">>))

\* a compile call: it returns what it compiled or raises, and touches
\* neither the builder nor the session
CompileCall(op, args, b, result) ==
    /\ q' = q
    /\ last' = CallArgs(op, args, IF b.base_table = NoTable THEN "raise" ELSE "ok",
                        IF b.base_table = NoTable THEN ErrBaseTable ELSE "")
    /\ compiled' = IF b.base_table = NoTable THEN None ELSE Some(result)
    /\ executed' = <<>>
    /\ commits' = 0
    /\ returned' = <<>>
    /\ batches' = <<>>
    /\ page_meta' = None
    /\ resolved' = None
    /\ UNCHANGED db_rows
    /\ UNCHANGED txvars

ToSqlAny ==
    \E dialect \in DialectNames, show_params \in BOOLEAN :
        CompileCall("to_sql", [NoArgs EXCEPT !.dialect = dialect, !.show_params = show_params],
                    q, to_sql(q, dialect, show_params))

BuildSubquery == CompileCall("build_subquery", NoArgs, q, build_subquery(q))

\* the builders: none or some of the clauses of the builder with every
\* clause set, a predicate with a value that has no literal form, and a
\* builder without a base relation
CompileBuilders ==
    {[FullBuilder EXCEPT !.joins = IF keep[1] THEN @ ELSE <<>>,
                         !.where = IF keep[2] THEN @ ELSE <<>>,
                         !.or_where = IF keep[3] THEN @ ELSE <<>>,
                         !.limit = IF keep[4] THEN @ ELSE None] : keep \in [1..4 -> BOOLEAN]}
    \cup {[reset_state EXCEPT !.base_table = User, !.where = <<CondObject>>], reset_state}

InitCompile ==
    /\ q \in CompileBuilders
    /\ last = Call("__init__", "ok", "")
    /\ executed = <<>>
    /\ commits = 0
    /\ db_rows = <<>>
    /\ returned = <<>>
    /\ batches = <<>>
    /\ page_meta = None
    /\ compiled = None
    /\ resolved = None
    /\ InitTransactions

NextCompile == ToSqlAny \/ BuildSubquery

SpecCompile == InitCompile /\ [][NextCompile]_vars

(***************************************************************************)
(* The clause-order specification: the chain calls that fill the clause     *)
(* lists, each with any arguments, and all() as the compiling terminal     *)
(***************************************************************************)
\* the non-empty argument tuples of a variadic chain call over two items
ArgTuples(a, b) == {<<a>>, <<b>>, <<a, b>>, <<b, a>>}

CountOver == Cmp("gt", Func("count", Col(User, S_id)), IntVal("1"))
CountUnder == Cmp("lt", Func("count", Col(User, S_id)), IntVal("9"))

\* a variadic chain call: op(*items) returning the builder b
Variadic(op, items, b) == ChainedArgs(op, [NoArgs EXCEPT !.value = items], b)

WhereMany ==
    \E conditions \in ArgTuples(CondX, CondY) :
        Variadic("where", conditions, [q EXCEPT !.where = @ \o conditions])

OrWhereMany ==
    \E conditions \in ArgTuples(CondY, CondZ) :
        Variadic("or_where", conditions, [q EXCEPT !.or_where = @ \o conditions])

SelectMany ==
    \E columns \in ArgTuples(Col(User, S_x), Col(User, S_y)) :
        Variadic("select", columns, [q EXCEPT !.select = @ \o columns])

OrderByMany ==
    \E columns \in ArgTuples(Col(User, S_x), Col(User, S_y)) :
        Variadic("order_by", columns, [q EXCEPT !.order = @ \o columns])

GroupByMany ==
    \E columns \in ArgTuples(Col(User, S_x), Col(User, S_y)) :
        Variadic("group_by", columns, [q EXCEPT !.group_by = @ \o columns])

HavingMany ==
    \E conditions \in ArgTuples(CountOver, CountUnder) :
        Variadic("having", conditions, [q EXCEPT !.having = @ \o conditions])

\* join, left_join, inner_join, right_join and full_join to any relation
JoinMethods ==
    {<<"join", "inner">>, <<"left_join", "left">>, <<"inner_join", "inner">>,
     <<"right_join", "right">>, <<"full_join", "full">>}

JoinAny ==
    \E method \in JoinMethods, model \in {Post, UserAlias} :
        LET entry == JoinEntry(method[2], model, OnPost)
        IN  Variadic(method[1], <<entry>>, [q EXCEPT !.joins = Append(@, entry)])

InitOrder ==
    /\ q = [reset_state EXCEPT !.base_table = User]
    /\ last = Call("table", "ok", "")
    /\ executed = <<>>
    /\ commits = 0
    /\ db_rows = <<>>
    /\ returned = <<>>
    /\ batches = <<>>
    /\ page_meta = None
    /\ compiled = None
    /\ resolved = None
    /\ InitTransactions

NextOrder ==
    \/ WhereMany \/ OrWhereMany \/ SelectMany \/ OrderByMany \/ GroupByMany \/ HavingMany
    \/ JoinAny \/ All

SpecOrder == InitOrder /\ [][NextOrder]_vars

(***************************************************************************)
(* DBConnectionManager: registration, initialization and lookup of the     *)
(* connections                                                             *)
(***************************************************************************)
ErrNotInitialized == "ConnectionManager not initialized. Call await manager.initialize() first."
ErrConnection == "Connection not found"
ErrEngine == "create_async_engine raised"

ConnNames == {"default", "analytics", "replica"}

\* what db_settings holds: nothing, or one configured connection
Settings ==
    {[connections |-> {}, default_connection |-> "default"],
     [connections |-> {"default"}, default_connection |-> "default"]}

\* the outcome of a call on the manager: the manager it leaves and the error
Managed(m, err) == [m |-> m, ok |-> err = "", err |-> err]

add_connection(m, name) ==
    LET connections == m.connections \cup {name}
    IN  [m EXCEPT !.connections = connections,
                  !.default_connection = IF Cardinality(connections) = 1 THEN name ELSE @]

set_default_connection(m, name) ==
    IF name \notin m.connections THEN Managed(m, ErrConnection)
    ELSE Managed([m EXCEPT !.default_connection = name], "")

\* initialize() with db_settings as settings; done: the connections whose
\* engine is made before create_async_engine raises (all of them: none raises)
initialize(m, settings, done) ==
    IF m.initialized THEN Managed(m, "")
    ELSE LET hydrated == IF m.connections = {} /\ settings.connections # {}
                         THEN [m EXCEPT !.connections = settings.connections,
                                        !.default_connection = settings.default_connection]
                         ELSE m
             made == [hydrated EXCEPT !.engines = @ \cup (done \cap hydrated.connections),
                                      !.session_makers = @ \cup (done \cap hydrated.connections)]
         IN  IF hydrated.connections \subseteq done
             THEN Managed([made EXCEPT !.initialized = TRUE], "")
             ELSE Managed(made, ErrEngine)

close_all(m) == [m EXCEPT !.engines = {}, !.session_makers = {}, !.initialized = FALSE]

\* get_engine(connection), connection being None or Some(name)
get_engine(m, connection) ==
    LET conn_name == IF connection = None THEN m.default_connection ELSE connection[1]
    IN  IF ~m.initialized THEN Managed(m, ErrNotInitialized)
        ELSE IF conn_name \notin m.engines THEN Managed(m, ErrConnection)
        ELSE Managed(m, "")

get_session_maker(m, connection) ==
    LET conn_name == IF connection = None THEN m.default_connection ELSE connection[1]
    IN  IF ~m.initialized THEN Managed(m, ErrNotInitialized)
        ELSE IF conn_name \notin m.session_makers THEN Managed(m, ErrConnection)
        ELSE Managed(m, "")

list_connections(m) == m.connections

\* a call on the manager leaves the builder, the session and the model alone
ManagerCall(op, connection, r) ==
    /\ manager' = r.m
    /\ last' = CallArgs(op, [NoArgs EXCEPT !.value = connection],
                        IF r.ok THEN "ok" ELSE "raise", r.err)
    /\ UNCHANGED <<q, executed, commits, db_rows, returned, batches, page_meta, compiled,
                   resolved, session, committed, frames, ctx, step, ncalls, update_call,
                   invoked, cls_session, flows>>

AddConnection ==
    \E name \in ConnNames :
        ManagerCall("add_connection", Some(name), Managed(add_connection(manager, name), ""))

SetDefaultConnection ==
    \E name \in ConnNames :
        ManagerCall("set_default_connection", Some(name), set_default_connection(manager, name))

Initialize ==
    \E settings \in Settings, done \in {ConnNames} \cup SUBSET manager.connections :
        ManagerCall("initialize", None, initialize(manager, settings, done))

CloseAll == ManagerCall("close_all", None, Managed(close_all(manager), ""))

GetEngine ==
    \E connection \in {None} \cup {Some(name) : name \in ConnNames} :
        ManagerCall("get_engine", connection, get_engine(manager, connection))

GetSessionMaker ==
    \E connection \in {None} \cup {Some(name) : name \in ConnNames} :
        ManagerCall("get_session_maker", connection, get_session_maker(manager, connection))

NextManager ==
    \/ AddConnection \/ SetDefaultConnection \/ Initialize \/ CloseAll
    \/ GetEngine \/ GetSessionMaker

\* a new manager; no builder, session or model is in use
InitManager ==
    /\ q = reset_state
    /\ last = Call("__init__", "ok", "")
    /\ executed = <<>>
    /\ commits = 0
    /\ db_rows = <<>>
    /\ returned = <<>>
    /\ batches = <<>>
    /\ page_meta = None
    /\ compiled = None
    /\ resolved = None
    /\ InitTransactions

SpecManager == InitManager /\ [][NextManager]_vars

(***************************************************************************)
(* BaseModel: the session of a model class, used by two request flows      *)
(***************************************************************************)
ErrNoSession == "No session available."

\* the session flow f works on: each flow has a session of its own
SessionOf(f) == f

\* cls.get_session(): the class attribute, or the RuntimeError
get_session(attr) == IF attr = None THEN [ok |-> FALSE, err |-> ErrNoSession, session |-> 0]
                     ELSE [ok |-> TRUE, err |-> "", session |-> attr[1]]

\* cls.query(), called by flow f: TableQuery(cls.get_session()).table(cls)
query(attr, f) == get_session(attr)

\* the methods of the model class that go through cls.query()
FacadeOps == {"query", "where", "all"}

\* a step of a flow leaves the builder, the session's transaction and the
\* manager alone
FlowIdle ==
    UNCHANGED <<q, last, executed, commits, db_rows, returned, batches, page_meta, compiled,
                resolved, session, committed, frames, ctx, step, ncalls, update_call,
                invoked, manager>>

\* flow f calls Model.set_session(session) with its session
SetSession ==
    \E f \in Flows :
        /\ flows[f].session = None
        /\ cls_session' = Some(SessionOf(f))
        /\ flows' = [flows EXCEPT ![f].session = Some(SessionOf(f))]
        /\ FlowIdle

\* flow f enters the dependency setup_model_session: the session of the
\* default connection is set on every model class
SetupModelSession ==
    \E f \in Flows :
        /\ flows[f].session = None
        /\ get_session_maker(manager, None).ok
        /\ cls_session' = Some(SessionOf(f))
        /\ flows' = [flows EXCEPT ![f].session = Some(SessionOf(f))]
        /\ FlowIdle

\* flow f, which has set its session, obtains a builder through the model
\* class
FacadeQuery ==
    \E f \in Flows, op \in FacadeOps :
        LET r == query(cls_session, f)
        IN  /\ flows[f].session # None
            /\ Len(flows[f].builders) < MaxBuilders
            /\ r.ok
            /\ flows' = [flows EXCEPT ![f].builders = Append(@, [op |-> op, session |-> r.session])]
            /\ UNCHANGED cls_session
            /\ FlowIdle

\* the manager is initialized with its default connection
InitModel ==
    /\ q = reset_state
    /\ last = Call("__init__", "ok", "")
    /\ executed = <<>>
    /\ commits = 0
    /\ db_rows = <<>>
    /\ returned = <<>>
    /\ batches = <<>>
    /\ page_meta = None
    /\ compiled = None
    /\ resolved = None
    /\ update_call = NoUpdateCall
    /\ invoked = 0
    /\ session = IdleSession
    /\ committed = <<>>
    /\ frames = <<>>
    /\ ctx = None
    /\ step = NoStep
    /\ ncalls = 0
    /\ manager = initialize(add_connection(NewManager, "default"),
                            [connections |-> {}, default_connection |-> "default"], ConnNames).m
    /\ cls_session = None
    /\ flows = [f \in Flows |-> NoFlow]

NextModel == SetSession \/ SetupModelSession \/ FacadeQuery

SpecModel == InitModel /\ [][NextModel]_vars

(***************************************************************************)
(* The limit specification: limit, offset, take and skip with any value    *)
(***************************************************************************)
PyValues ==
    {PyInt(n) : n \in (-1)..MaxLimit} \cup {PyBool(b) : b \in BOOLEAN}
    \cup {PyFloat(1), PyStr, PyNone}

LimitAny == LimitCall(PyValues)
OffsetAny == OffsetCall(PyValues)
TakeAny == TakeCall(PyValues)
SkipAny == SkipCall(PyValues)

NextLimit == Table \/ Where \/ LimitAny \/ OffsetAny \/ TakeAny \/ SkipAny

SpecLimit == Init /\ [][NextLimit]_vars

(***************************************************************************)
(* The session's transaction, as TransactionStack and the decorators use it *)
(***************************************************************************)
ErrAlreadyBegun == "A transaction is already begun on this Session."
ErrClosed == "This transaction is closed"

\* what a call on the session or on a TransactionStack leaves: the stack, the
\* session, the committed changes, and whether it returned or raised
Tx(stack, s, db, status, error) ==
    [stack |-> stack, session |-> s, committed |-> db, status |-> status, error |-> error]

\* db.add(obj), or an execute of a DML statement: the session begins its
\* transaction if none is begun and holds the change until commit
session_add(s) ==
    [s EXCEPT !.begun = TRUE, !.nchanges = @ + 1, !.pending = Append(@, s.nchanges + 1)]

\* await db.begin(): refused when the session has a transaction already
session_begin(s) == [s EXCEPT !.begun = TRUE]

\* await db.begin_nested(): a savepoint, which remembers the changes pending
\* when it is created; the savepoint becomes the session's innermost
\* transaction
begin_nested(s) ==
    [s EXCEPT !.begun = TRUE, !.nsaves = @ + 1,
              !.savepoints = Append(@, [id |-> s.nsaves + 1, mark |-> Len(s.pending)])]

\* the savepoints of s that are still open
OpenSavepoints(s) == {s.savepoints[i].id : i \in 1..Len(s.savepoints)}

\* savepoint.rollback(): the changes made since the savepoint are undone and
\* the savepoint and those created inside it are closed
savepoint_rollback(s, id) ==
    LET i == CHOOSE k \in 1..Len(s.savepoints) : s.savepoints[k].id = id
    IN  [s EXCEPT !.pending = SubSeq(@, 1, s.savepoints[i].mark),
                  !.savepoints = SubSeq(@, 1, i - 1)]

\* the transaction of s is over: nothing pending, no savepoint open
session_closed(s) == [s EXCEPT !.begun = FALSE, !.pending = <<>>, !.savepoints = <<>>]

\* await db.commit(): the outermost transaction commits, with everything
\* pending in it
session_commit(s, db) == Tx(<<>>, session_closed(s), db \o s.pending, "ok", "")

\* await db.rollback(): the outermost transaction is rolled back
session_rollback(s, db) == Tx(<<>>, session_closed(s), db, "ok", "")

\* TransactionStack(db)
TransactionStack == [depth |-> 0, savepoints |-> <<>>]

\* TransactionStack.begin
begin(self, s, db) ==
    IF self.depth = 0
    THEN IF s.begun
         THEN Tx(self, s, db, "raise", ErrAlreadyBegun)
         ELSE Tx([self EXCEPT !.depth = @ + 1], session_begin(s), db, "ok", "")
    ELSE LET s1 == begin_nested(s)
         IN  Tx([self EXCEPT !.savepoints = Append(@, s1.nsaves), !.depth = @ + 1],
                s1, db, "ok", "")

\* TransactionStack.commit; fail: db.commit() raises, and the session's
\* transaction is over with nothing committed
commit(self, s, db, fail) ==
    LET self1 == [self EXCEPT !.depth = @ - 1]
    IN  IF self1.depth = 0
        THEN IF fail
             THEN Tx(self1, session_closed(s), db, "raise", ErrSession)
             ELSE [session_commit(s, db) EXCEPT !.stack = self1]
        ELSE Tx(self1, s, db, "ok", "")

\* a rollback that reaches the session whatever the depth is
rollback_session(self, s, db) ==
    [session_rollback(s, db) EXCEPT !.stack = [self EXCEPT !.depth = @ - 1]]

\* TransactionStack.rollback
rollback(self, s, db) ==
    LET self1 == [self EXCEPT !.depth = @ - 1]
        n == Len(self1.savepoints)
    IN  IF self1.depth = 0
        THEN [session_rollback(s, db) EXCEPT !.stack = self1]
        ELSE IF n > 0
        THEN LET popped == [self1 EXCEPT !.savepoints = SubSeq(@, 1, n - 1)]
                 id == self1.savepoints[n]
             IN  IF id \in OpenSavepoints(s)
                 THEN Tx(popped, savepoint_rollback(s, id), db, "ok", "")
                 ELSE Tx(popped, s, db, "raise", ErrClosed)
        ELSE Tx(self1, s, db, "ok", "")

(***************************************************************************)
(* atomic: the wrapper of a decorated function, on one session             *)
(***************************************************************************)
\* a running call of a decorated function: the TransactionStack of a
\* standalone call is its own, that of a shared call is the one of the
\* context variable; token: the call has set the context variable; entry: the
\* changes pending when it was called; caught: the calls whose exception its
\* body has caught, each with the changes pending when it was made
Frame(standalone, stack, token, entry) ==
    [standalone |-> standalone, stack |-> stack, token |-> token, entry |-> entry,
     caught |-> {}]

\* txn_stack of the wrapper of frame f
StackOf(f) == IF f.standalone THEN f.stack ELSE ctx[1]

\* a wrapper without the finally clause: the context variable keeps the stack
ContextKept(f, stack) == IF f.standalone THEN ctx ELSE Some(stack)

\* the context variable after the wrapper of f has worked on its stack and
\* gone through its finally clause
ContextAfter(f, stack) ==
    IF f.standalone THEN ctx ELSE IF f.token THEN None ELSE Some(stack)

Step(kind, f, nested, began, status, error) ==
    [kind |-> kind, standalone |-> f.standalone, nested |-> nested, began |-> began,
     status |-> status, error |-> error, entry |-> f.entry, caught |-> f.caught]

\* an exception is on its way to the body of the innermost running call
InFlight == frames # <<>> /\ step.status = "raise"

Top == frames[Len(frames)]
Popped == SubSeq(frames, 1, Len(frames) - 1)

\* the decorators leave the builder alone
BuilderIdle == UNCHANGED <<q, last, executed, commits, db_rows, returned, batches, page_meta,
                           compiled, resolved, invoked, appvars>>

\* a decorated function is called, by the body of the innermost running call
\* or from outside: the wrapper up to `await func(...)`, and through its
\* except and finally clauses when begin raises
AtomicCall(standalone) ==
    /\ ~InFlight
    /\ Len(frames) < MaxDepth
    /\ ncalls < MaxCalls
    /\ LET f == Frame(standalone, TransactionStack, ~standalone /\ ctx = None,
                      session.pending)
           txn_stack == IF standalone \/ ctx = None THEN TransactionStack ELSE ctx[1]
           b == begin(txn_stack, session, committed)
           r == rollback(b.stack, b.session, b.committed)
       IN  IF b.status = "ok"
           THEN /\ frames' = Append(frames, [f EXCEPT !.stack = IF standalone THEN b.stack ELSE @])
                /\ ctx' = IF standalone THEN ctx ELSE Some(b.stack)
                /\ session' = b.session
                /\ committed' = b.committed
                /\ step' = Step("call", f, frames # <<>>, TRUE, "ok", "")
           ELSE /\ frames' = frames
                /\ ctx' = ContextAfter(f, r.stack)
                /\ session' = r.session
                /\ committed' = r.committed
                /\ step' = Step("call", f, frames # <<>>, FALSE, "raise",
                                IF r.status = "raise" THEN r.error ELSE b.error)
    /\ ncalls' = ncalls + 1
    /\ UNCHANGED update_call
    /\ BuilderIdle

\* the body of the innermost running call changes something through the
\* session
Write ==
    /\ frames # <<>>
    /\ ~InFlight
    /\ session.nchanges < MaxChanges
    /\ session' = session_add(session)
    /\ step' = Step("write", Top, Len(frames) > 1, TRUE, "ok", "")
    /\ UNCHANGED <<committed, frames, ctx, ncalls, update_call>>
    /\ BuilderIdle

\* the body of the innermost running call catches the exception of the call
\* it made
Catch ==
    /\ InFlight
    /\ frames' = [frames EXCEPT ![Len(frames)].caught =
                      @ \cup {[standalone |-> step.standalone, entry |-> step.entry]}]
    /\ step' = [step EXCEPT !.kind = "catch", !.status = "ok"]
    /\ UNCHANGED <<session, committed, ctx, ncalls, update_call>>
    /\ BuilderIdle

\* the body of the innermost running call returns: txn_stack.commit(), and
\* the except clause when the commit raises
AtomicReturn ==
    /\ frames # <<>>
    /\ ~InFlight
    /\ \E fail \in BOOLEAN :
        LET f == Top
            c == commit(StackOf(f), session, committed, fail)
            r == rollback(c.stack, c.session, c.committed)
        IN  /\ fail => c.stack.depth = 0
            /\ frames' = Popped
            /\ IF c.status = "ok"
               THEN /\ ctx' = ContextAfter(f, c.stack)
                    /\ session' = c.session
                    /\ committed' = c.committed
                    /\ step' = Step("return", f, Len(frames) > 1, TRUE, "ok", "")
               ELSE /\ ctx' = ContextAfter(f, r.stack)
                    /\ session' = r.session
                    /\ committed' = r.committed
                    /\ step' = Step("return", f, Len(frames) > 1, TRUE, "raise",
                                    IF r.status = "raise" THEN r.error ELSE c.error)
    /\ UNCHANGED <<ncalls, update_call>>
    /\ BuilderIdle

\* the body of the innermost running call raises, or lets the exception of
\* the call it made through: txn_stack.rollback() and raise
AtomicRaise ==
    /\ frames # <<>>
    /\ LET f == Top
           r == rollback(StackOf(f), session, committed)
       IN  /\ frames' = Popped
           /\ ctx' = ContextAfter(f, r.stack)
           /\ session' = r.session
           /\ committed' = r.committed
           /\ step' = Step("raise", f, Len(frames) > 1, TRUE, "raise",
                           IF r.status = "raise" THEN r.error ELSE "Exception")
    /\ UNCHANGED <<ncalls, update_call>>
    /\ BuilderIdle

InitAtomic ==
    /\ q = reset_state
    /\ last = Call("__init__", "ok", "")
    /\ executed = <<>>
    /\ commits = 0
    /\ db_rows = <<>>
    /\ returned = <<>>
    /\ batches = <<>>
    /\ page_meta = None
    /\ compiled = None
    /\ resolved = None
    /\ InitTransactions

NextAtomic ==
    \/ \E standalone \in BOOLEAN : AtomicCall(standalone)
    \/ Write
    \/ Catch
    \/ AtomicReturn
    \/ AtomicRaise

SpecAtomic == InitAtomic /\ [][NextAtomic]_vars

\* calls of non-standalone decorated functions only
NextShared ==
    \/ AtomicCall(FALSE)
    \/ Write
    \/ Catch
    \/ AtomicReturn
    \/ AtomicRaise

SpecShared == InitAtomic /\ [][NextShared]_vars

(***************************************************************************)
(* with_transaction: the wrapper of a decorated function, inside the       *)
(* session context manager of the connection manager                       *)
(***************************************************************************)
\* a mutation terminal of a builder of db, as the session sees it: the
\* execute of the DML statement, then session.commit(); it raises at its
\* fail-th session call (0: at none)
mutation(s, db, fail) ==
    IF fail = 1 THEN Tx(<<>>, s, db, "raise", ErrSession)
    ELSE IF fail = 2 THEN Tx(<<>>, session_closed(session_add(s)), db, "raise", ErrSession)
    ELSE session_commit(session_add(s), db)

\* the decorated function is called: connection_manager.session() makes a
\* session, the wrapper makes the DB facade on it and calls the function;
\* the frame remembers the changes the database holds committed
WithTransactionCall ==
    /\ frames = <<>>
    /\ ncalls < MaxCalls
    /\ frames' = <<Frame(FALSE, TransactionStack, FALSE, committed)>>
    /\ session' = session_closed(session)
    /\ step' = Step("call", frames'[1], FALSE, TRUE, "ok", "")
    /\ ncalls' = ncalls + 1
    /\ UNCHANGED <<committed, ctx, update_call>>
    /\ BuilderIdle

\* the body awaits db.table(...).create, update or delete
Mutation ==
    /\ frames # <<>>
    /\ ~InFlight
    /\ session.nchanges < MaxChanges
    /\ \E op \in {"create", "update", "delete"}, fail \in 0..2 :
        LET m == mutation(session, committed, fail)
        IN  /\ session' = m.session
            /\ committed' = m.committed
            /\ step' = Step(op, Top, FALSE, TRUE, m.status, m.error)
    /\ UNCHANGED <<frames, ctx, ncalls, update_call>>
    /\ BuilderIdle

\* the body returns: the wrapper's session.commit(), then the commit of the
\* context manager; when the fail-th of the two raises (0: none) the
\* rollbacks of the except clauses run
WithTransactionReturn ==
    /\ frames # <<>>
    /\ ~InFlight
    /\ \E fail \in 0..2 :
        LET c == session_commit(session, committed)
        IN  /\ session' = session_closed(session)
            /\ committed' = IF fail = 1 THEN committed ELSE c.committed
            /\ step' = Step("return", Top, FALSE, TRUE, IF fail = 0 THEN "ok" ELSE "raise",
                            IF fail = 0 THEN "" ELSE ErrSession)
    /\ frames' = <<>>
    /\ UNCHANGED <<ctx, ncalls, update_call>>
    /\ BuilderIdle

\* the body raises, or lets the exception of a mutation through: the
\* wrapper's session.rollback() and raise, then the rollback of the context
\* manager
WithTransactionRaise ==
    /\ frames # <<>>
    /\ LET r == session_rollback(session, committed)
       IN  /\ session' = r.session
           /\ committed' = r.committed
    /\ step' = Step("raise", Top, FALSE, TRUE, "raise", "Exception")
    /\ frames' = <<>>
    /\ UNCHANGED <<ctx, ncalls, update_call>>
    /\ BuilderIdle

NextWithTransaction ==
    \/ WithTransactionCall
    \/ Mutation
    \/ Write
    \/ Catch
    \/ WithTransactionReturn
    \/ WithTransactionRaise

SpecWithTransaction == InitAtomic /\ [][NextWithTransaction]_vars

(***************************************************************************)
(* The update specification: update(data) on one session, statement by     *)
(* statement, and other sessions that commit between its statements        *)
(***************************************************************************)
\* the builder db.table(User).where(User.x == 1) and the data {"x": 2}; the
\* tag of a row stands for its x
UpdateBuilder == [reset_state EXCEPT !.base_table = User, !.where = <<CondX>>]
UpdateData == Data({S_x}, 2)

\* the rows of the table User.x == 1 selects
Matching(db) == {db[i].id : i \in {k \in 1..Len(db) : db[k].tag = 1}}

\* the table after UPDATE ... SET x = data WHERE x = 1
Updated(db, data) ==
    [i \in 1..Len(db) |-> IF db[i].tag = 1 THEN [db[i] EXCEPT !.tag = data.tag] ELSE db[i]]

\* the rows SELECT ... WHERE id IN (ids) returns
RowsWithIds(db, ids) == SelectSeq(db, LAMBDA r : r.id \in ids)

\* the checks of update() have passed and the session is about to be used
UpdateAccepted(b, data) ==
    b.base_table # NoTable /\ data.keys # {} /\ ~NoPredicate(b) /\ KeysExist(b, data)

UpdateIdle ==
    UNCHANGED <<page_meta, compiled, resolved, batches, session, committed, frames, ctx, step,
                ncalls, invoked, appvars>>

\* update(): id_stmt is executed and its ids are kept in affected_ids
UpdateSelectIds ==
    /\ update_call.pc = "idle"
    /\ UpdateAccepted(q, UpdateData)
    /\ executed' = <<update_stmts(q, UpdateData)[1]>>
    /\ update_call' = [update_call EXCEPT !.pc = "ids", !.affected_ids = Matching(db_rows)]
    /\ UNCHANGED <<q, last, commits, db_rows, returned>>
    /\ UpdateIdle

\* update(): the UPDATE statement is executed and committed
UpdateExecute ==
    /\ update_call.pc = "ids"
    /\ executed' = Append(executed, update_stmts(q, UpdateData)[2])
    /\ commits' = commits + 1
    /\ db_rows' = Updated(db_rows, UpdateData)
    /\ update_call' = [update_call EXCEPT !.pc = "updated", !.touched = Matching(db_rows)]
    /\ UNCHANGED <<q, last, returned>>
    /\ UpdateIdle

\* update(): select_stmt is executed, the builder is reset and the rows are
\* returned
UpdateFetch ==
    /\ update_call.pc = "updated"
    /\ executed' = Append(executed, update_stmts(q, UpdateData)[3])
    /\ returned' = RowsWithIds(db_rows, update_call.affected_ids)
    /\ q' = reset_state
    /\ last' = CallArgs("update", [NoArgs EXCEPT !.data = <<UpdateData>>], "ok", "")
    /\ update_call' = [update_call EXCEPT !.pc = "done"]
    /\ UNCHANGED <<commits, db_rows>>
    /\ UpdateIdle

\* update(): the session call the method is about to make raises
UpdateRaises ==
    /\ update_call.pc \in {"idle", "ids", "updated"}
    /\ UpdateAccepted(q, UpdateData)
    /\ last' = CallArgs("update", [NoArgs EXCEPT !.data = <<UpdateData>>], "raise", ErrSession)
    /\ update_call' = [update_call EXCEPT !.pc = "done"]
    /\ UNCHANGED <<q, executed, commits, db_rows, returned>>
    /\ UpdateIdle

\* another session has something to commit while the update is running
OtherSession == update_call.pc # "done" /\ update_call.others < MaxOthers

\* another session inserts a row and commits
OtherInsert ==
    /\ OtherSession
    /\ \E tag \in 0..1 :
        db_rows' = Append(db_rows, Row(update_call.next_id, tag))
    /\ update_call' = [update_call EXCEPT !.next_id = @ + 1, !.others = @ + 1]
    /\ UNCHANGED <<q, last, executed, commits, returned>>
    /\ UpdateIdle

\* another session changes the x of a row and commits
OtherUpdate ==
    /\ OtherSession
    /\ \E i \in 1..Len(db_rows) :
        db_rows' = [db_rows EXCEPT ![i].tag = 1 - @]
    /\ update_call' = [update_call EXCEPT !.others = @ + 1]
    /\ UNCHANGED <<q, last, executed, commits, returned>>
    /\ UpdateIdle

\* another session deletes a row and commits
OtherDelete ==
    /\ OtherSession
    /\ \E i \in 1..Len(db_rows) :
        db_rows' = SubSeq(db_rows, 1, i - 1) \o SubSeq(db_rows, i + 1, Len(db_rows))
    /\ update_call' = [update_call EXCEPT !.others = @ + 1]
    /\ UNCHANGED <<q, last, executed, commits, returned>>
    /\ UpdateIdle

InitUpdate ==
    /\ q = UpdateBuilder
    /\ last = Call("where", "ok", "")
    /\ executed = <<>>
    /\ commits = 0
    /\ \E n \in 0..MaxOld :
        /\ db_rows \in [1..n -> {Row(i, tag) : i \in 1..n, tag \in 0..1}]
        /\ \A i \in 1..n : db_rows[i].id = i
        /\ update_call = [NoUpdateCall EXCEPT !.next_id = n + 1]
    /\ returned = <<>>
    /\ batches = <<>>
    /\ page_meta = None
    /\ compiled = None
    /\ resolved = None
    /\ session = IdleSession
    /\ committed = <<>>
    /\ frames = <<>>
    /\ ctx = None
    /\ step = NoStep
    /\ ncalls = 0
    /\ invoked = 0
    /\ InitApp

NextUpdate ==
    \/ UpdateSelectIds
    \/ UpdateExecute
    \/ UpdateFetch
    \/ UpdateRaises
    \/ OtherInsert
    \/ OtherUpdate
    \/ OtherDelete

SpecUpdate == InitUpdate /\ [][NextUpdate]_vars

(***************************************************************************)
(* Properties                                                              *)
(***************************************************************************)
ReadTerminals ==
    {"all", "get", "first", "one_or_fail", "find", "last", "count", "max", "min", "sum", "avg",
     "exists", "distinct", "distinct_by", "group_and_deduplicate"}

MutationTerminals == {"create", "create_many", "update", "update_by_id", "delete", "delete_by_id"}

\* the clause set of the builder is empty: every field has the value it has
\* at construction
ClauseSetEmpty ==
    /\ q.schema = None
    /\ q.base_table = NoTable
    /\ q.joins = <<>>
    /\ q.where = <<>>
    /\ q.or_where = <<>>
    /\ q.select = <<>>
    /\ q.order = <<>>
    /\ q.group_by = <<>>
    /\ q.having = <<>>
    /\ q.limit = None
    /\ q.offset = None
    /\ q.union_queries = <<>>
    /\ q.union_all = FALSE
    /\ q.load_options = <<>>
    /\ q.enable_orm = FALSE

\* C1: after a read terminal returns, the clause set of the builder it was
\* called on is empty
C1_ReadTerminalClears ==
    (last.op \in ReadTerminals /\ last.status = "ok") => ClauseSetEmpty

\* the predicate the two groups stand for: (AND of W) OR (OR of O), a group
\* alone when the other is empty
GroupsPredicate(W, O) ==
    IF W # <<>> /\ O # <<>>
    THEN Expr("or", "", "", <<>>, NoneVal,
              <<Expr("and", "", "", <<>>, NoneVal, W), Expr("or", "", "", <<>>, NoneVal, O)>>)
    ELSE IF W # <<>> THEN Expr("and", "", "", <<>>, NoneVal, W)
    ELSE Expr("or", "", "", <<>>, NoneVal, O)

\* two predicates select the same rows, whatever comparisons are true of a row
SameRows(e1, e2) ==
    \A true \in SUBSET (Atoms(e1) \cup Atoms(e2)) : Eval(e1, true) <=> Eval(e2, true)

\* C2: the WHERE predicate of the compiled statement is (AND of W) OR (OR of O)
\* when both groups hold predicates, the group that holds predicates when only
\* one does, and there is no WHERE clause when both are empty
C2_WhereIsAndGroupOrOrGroup ==
    (last.op = "to_sql" /\ last.status = "ok") =>
        LET stmt == compiled[1].stmt
        IN  IF q.where = <<>> /\ q.or_where = <<>> THEN stmt.where = <<>>
            ELSE /\ stmt.where # <<>>
                 /\ SameRows(Expr("and", "", "", <<>>, NoneVal, stmt.where),
                             GroupsPredicate(q.where, q.or_where))

\* the error of update and of delete on a builder without predicates
MissingPredicateError(op) == IF op = "update" THEN ErrWhereUpdate ELSE ErrWhereDelete

\* C3 as stated: update(data) and delete() on a builder with a base relation
\* and no predicate in either group fail with the missing-predicate error,
\* whatever the data, before any execute or commit
C3_NoPredicateAlwaysMissingPredicate ==
    [][(last'.op \in {"update", "delete"} /\ q.base_table # NoTable
            /\ q.where = <<>> /\ q.or_where = <<>>)
        => (/\ last'.status = "raise"
            /\ last'.error = MissingPredicateError(last'.op)
            /\ executed' = <<>>
            /\ commits' = 0)]_vars

\* C3 amended: on a builder with no predicate in either group, update and
\* delete raise before any execute or commit; the error is the base-table
\* error when no base relation is set, the empty-data error when update is
\* given an empty mapping, and the missing-predicate error otherwise
C3_NoPredicateFailsBeforeSession ==
    [][(last'.op \in {"update", "delete"} /\ q.where = <<>> /\ q.or_where = <<>>)
        => (/\ last'.status = "raise"
            /\ executed' = <<>>
            /\ commits' = 0
            /\ q' = q
            /\ last'.error =
                 IF q.base_table = NoTable THEN ErrBaseTable
                 ELSE IF last'.op = "update" /\ last'.args.data[1].keys = {} THEN ErrDataEmpty
                 ELSE MissingPredicateError(last'.op))]_vars

\* an update with data for a builder with a base relation and no predicate
\* has raised the missing-predicate error
C3_Witness ==
    /\ last.op = "update"
    /\ last.args.data[1].keys # {}
    /\ last.error = ErrWhereUpdate
    /\ q.base_table = User
    /\ q.where = <<>> /\ q.or_where = <<>>
    /\ q.joins # <<>>

\* C4: when the execute or the commit of the session raises during a
\* terminal call, the call raises and the clause set of the builder is
\* cleared all the same; stated for the terminals that clear the builder
\* they are called on when they return, paginate and the mutations
C4_SessionErrorClears ==
    (last.op \in MutationTerminals \cup {"paginate"} /\ last.status = "raise"
        /\ last.error = ErrSession) => ClauseSetEmpty

\* C5: after a mutation terminal returns, the clause set of the builder is
\* empty
C5_MutationClears ==
    (last.op \in MutationTerminals /\ last.status = "ok") => ClauseSetEmpty

\* a delete with a predicate and a schema has returned and left the builder
\* empty
C5_Witness ==
    /\ last.op = "delete"
    /\ last.status = "ok"
    /\ Len(executed) = 1
    /\ executed[1].kind = "delete"
    /\ executed[1].where # <<>>
    /\ executed[1].schema # None
    /\ commits = 1
    /\ ClauseSetEmpty

\* the statement a terminal call has built: the one to_sql compiled, or the
\* one all and first handed to the session
BuiltStatement == IF last.op = "to_sql" THEN compiled[1].stmt ELSE executed[1]

\* C6: with union members set, the statement all, first and to_sql build is
\* the UNION, or the UNION ALL, of the builder's own statement and the
\* statements of the members, and not the builder's own SELECT
C6_UnionMembersCombined ==
    (last.op \in {"all", "first", "to_sql"} /\ last.status = "ok" /\ q.union_queries # <<>>)
        => /\ BuiltStatement.kind = (IF q.union_all THEN "union_all" ELSE "union")
           /\ BuiltStatement # build_query([q EXCEPT !.union_queries = <<>>, !.union_all = FALSE])

\* the entries of a filter mapping that are not None
NonNull(filters) == SelectSeq(filters, LAMBDA entry : entry.value # NoneVal)

\* C7: an apply_filters call with a non-null entry that returns has appended
\* one element to one group, the AND of its expressions to the AND-group, or
\* with use_or the OR of its expressions to the OR-group, and has changed
\* nothing else; the AND-group compiles to the AND of its elements
C7_ApplyFiltersAppendsOne ==
    [][(last'.op = "apply_filters" /\ last'.status = "ok" /\ NonNull(last'.args.filters) # <<>>)
        => LET filters == NonNull(last'.args.filters)
               expressions == [i \in 1..Len(filters) |-> filter_expression(q, filters[i]).expr]
           IN  /\ IF last'.args.use_or
                  THEN q' = [q EXCEPT !.or_where = Append(@, or_(expressions))]
                  ELSE q' = [q EXCEPT !.where = Append(@, and_(expressions))]
               /\ Len(q'.where) + Len(q'.or_where) = Len(q.where) + Len(q.or_where) + 1
               /\ apply_where(EmptyStmt, q'.where, <<>>).where = <<and_(q'.where)>> \/ q'.where = <<>>
       ]_vars

\* the second of two apply_filters calls with two entries each has returned:
\* the AND-group holds two elements
C7_Witness ==
    /\ last.op = "apply_filters"
    /\ last.status = "ok"
    /\ last.args.filters = FiltersXY
    /\ ~last.args.use_or
    /\ Len(q.where) = 2
    /\ q.where[1] = q.where[2]
    /\ q.where[2].kind = "and"
    /\ q.or_where = <<>>

\* the joins of the builder that answer to a table name, by position
AnsweringJoins(name) == {i \in 1..Len(q.joins) : join_matches(q.joins[i].model, name)}

\* C8: a table name the base relation answers to resolves to the base
\* relation, whatever joins answer to it as well; a name only joins answer
\* to resolves to the earliest of them; no later match is an error; a name
\* nothing answers to is the unknown-table error
C8_BaseFirstThenJoinsInOrder ==
    resolved # None =>
        LET r == resolved[1]
        IN  IF base_matches(q.base_table, r.table_name)
            THEN /\ r.err \in {"", ErrNoColumn}
                 /\ r.ok = (r.column_name \in q.base_table.attrs)
                 /\ r.ok => r.expr = Col(q.base_table, r.column_name)
            ELSE IF AnsweringJoins(r.table_name) # {}
            THEN \E i \in AnsweringJoins(r.table_name) :
                    /\ \A j \in AnsweringJoins(r.table_name) : i <= j
                    /\ r.err \in {"", ErrNoColumn}
                    /\ r.ok = (r.column_name \in q.joins[i].model.attrs)
                    /\ r.ok => r.expr = Col(q.joins[i].model, r.column_name)
            ELSE ~r.ok /\ r.err = ErrUnknownTable

\* the base relation and the first join both answer to "us", a second join
\* is the subquery named "us", and us.x has resolved to the base relation
C8_Witness ==
    /\ resolved # None
    /\ q.base_table = User
    /\ Len(q.joins) = 2
    /\ q.joins[1].model = UserAlias
    /\ q.joins[2].model = SubUs
    /\ resolved[1].table_name = S_us
    /\ resolved[1].column_name = S_x
    /\ resolved[1].ok
    /\ resolved[1].expr.rel = "User"

\* the least n with n * b >= a: the ceiling of a / b
CeilingOf(a, b) == CHOOSE n \in 0..a : n * b >= a /\ \A m \in 0..a : m * b >= a => n <= m

\* C9: for page >= 1 and per_page >= 1, total_pages is ceil(T / per_page) for
\* a record count T > 0 and 1 for T = 0, has_more is page < total_pages,
\* last_page is total_pages, and next_page is None when has_more is false
\* and page + 1 otherwise
C9_PaginationArithmetic ==
    (last.op = "paginate" /\ last.status = "ok" /\ last.args.page >= 1 /\ last.args.per_page >= 1)
        => LET meta == page_meta[1]
               T == meta.total_records
           IN  /\ meta.total_pages = (IF T > 0 THEN CeilingOf(T, last.args.per_page) ELSE 1)
               /\ meta.has_more = (last.args.page < meta.total_pages)
               /\ meta.last_page = meta.total_pages
               /\ (meta.next_page = None) = (~meta.has_more)
               /\ meta.has_more => meta.next_page = Some(last.args.page + 1)

\* page 2 of 5 records by 2: three pages, and page 3 is next
C9_Witness ==
    /\ last.op = "paginate"
    /\ last.status = "ok"
    /\ last.args.page = 2
    /\ last.args.per_page = 2
    /\ page_meta # None
    /\ page_meta[1].total_records = 5
    /\ page_meta[1].total_pages = 3
    /\ page_meta[1].next_page = Some(3)

\* C10: create_many of n valid rows with chunk_size c >= 1, on the RETURNING
\* path and on the fallback path (every commit of the session succeeds),
\* inserts ceil(n / c) batches, batch k holding rows (k - 1) * c + 1 to k * c
\* of the input, and returns n rows, the i-th of them made from the i-th
\* row of the input
C10_BatchesAndRowsInInputOrder ==
    LET data_list == last.args.data
        n == Len(data_list)
        c == last.args.chunk_size
    IN  (last.op = "create_many" /\ last.status = "ok" /\ commits = CeilingOf(n, c))
            => /\ Len(batches) = CeilingOf(n, c)
               /\ \A k \in 1..Len(batches) :
                      batches[k] = SubSeq(data_list, (k - 1) * c + 1, Least(k * c, n))
               /\ Len(returned) = n
               /\ \A i \in 1..n : returned[i].tag = data_list[i].tag

\* C11: one create call adds at most one row to the table, whatever the
\* session answers to its execute and commit calls and whatever dict(row)
\* does: the plain INSERT of the except branch is executed only when the
\* RETURNING insert left no row
C11_CreateInsertsOneRow ==
    [][(last'.op = "create" /\ last.op # "create")
          => Len(db_rows') <= Len(db_rows) + 1]_vars

\* C13: a standalone call made by the body of a shared call on the same
\* session raises: the changes pending on the session are those that were
\* pending when the standalone call was made, the parent's among them; and
\* an outermost shared call that returns commits everything pending.  (The
\* standalone call raises in begin, before its function runs: the session
\* has the parent's transaction already.)
C13_StandaloneFailureLeavesParent ==
    [][/\ (/\ step'.standalone
           /\ step'.status = "raise"
           /\ frames' # <<>>
           /\ ~frames'[Len(frames')].standalone)
          => session'.pending = step'.entry
       /\ (/\ step'.kind = "return"
           /\ step'.status = "ok"
           /\ ~step'.standalone
           /\ ~step'.nested)
          => committed' = committed \o session.pending]_vars

\* an outermost shared call has returned and committed the change it made
\* before the standalone call whose exception it caught
C13_Witness ==
    /\ step.kind = "return"
    /\ step.status = "ok"
    /\ ~step.standalone
    /\ ~step.nested
    /\ step.caught = {[standalone |-> TRUE, entry |-> <<1>>]}
    /\ committed = <<1>>
    /\ frames = <<>>

\* C14: a nested shared call whose body ran has raised and its caller has
\* caught the exception: the changes pending on the session are those that
\* were pending when the nested call was made, so the rollback has undone
\* what was changed since the call's savepoint and nothing else, whatever
\* nested calls had returned inside it or before it
C14_NestedRollbackToOwnSavepoint ==
    (step.kind = "catch" /\ ~step.standalone /\ step.nested /\ step.began)
        => session.pending = step.entry

\* C12: the function wrapped by with_transaction has raised: the database
\* holds committed what it held when the function was called, so none of
\* the mutations the function made through db.table(...) remains committed
C12_TransactionAllOrNothing ==
    (step.kind = "raise" /\ frames = <<>>) => committed = step.entry

\* value is an integer that is at least least; Python's bool is an int, True
\* the integer 1 and False the integer 0
IntegerAtLeast(value, least) == value.t \in {"int", "bool"} /\ value.n >= least

\* C15: limit(n) and take(n) raise in the call itself unless n is an integer
\* >= 1, offset(n) and skip(n) unless n is an integer >= 0; a call that
\* raises leaves the builder as it was, limit and offset included, and a call
\* that returns has set the limit, or the offset, to n and nothing else
C15_LimitOffsetValidatedAtCall ==
    [][/\ last'.op \in {"limit", "take"} =>
            IF IntegerAtLeast(last'.args.value[1], 1)
            THEN last'.status = "ok" /\ q' = [q EXCEPT !.limit = last'.args.value]
            ELSE last'.status = "raise" /\ last'.error = ErrLimit /\ q' = q
       /\ last'.op \in {"offset", "skip"} =>
            IF IntegerAtLeast(last'.args.value[1], 0)
            THEN last'.status = "ok" /\ q' = [q EXCEPT !.offset = last'.args.value]
            ELSE last'.status = "raise" /\ last'.error = ErrOffset /\ q' = q]_vars

\* take(0) has raised on a builder that has a base table, a limit and an
\* offset, and has left them all
C15_Witness ==
    /\ last.op = "take"
    /\ last.args.value = Some(PyInt(0))
    /\ last.status = "raise"
    /\ q.base_table = User
    /\ q.limit = Some(PyInt(2))
    /\ q.offset = Some(PyInt(0))

\* the rows a compiled join keeps when they have no partner: stmt.join(target,
\* onclause, isouter, full) is JOIN, LEFT OUTER JOIN or FULL OUTER JOIN from
\* the statement's FROM to target, so the rows of target are kept only by
\* FULL OUTER JOIN
KeepsTargetRows(j) == j.full
KeepsFromRows(j) == j.isouter \/ j.full

\* the compiled form of a left join with model and onclause
LeftJoinForm(model, onclause) ==
    [target |-> model, onclause |-> onclause, isouter |-> TRUE, full |-> FALSE]

\* C16: in the statement to_sql compiles, a join of kind right keeps every
\* row of the joined relation and is not the compiled form of a left join
\* with the same relation and on-condition; full is a full outer join, left a
\* left outer join and inner an inner join
C16_RightJoinKeepsJoinedRows ==
    (last.op = "to_sql" /\ last.status = "ok") =>
        \A i \in 1..Len(q.joins) :
            LET e == q.joins[i]
                j == compiled[1].stmt.joins[i]
            IN  /\ j.target = e.model /\ j.onclause = e.onclause
                /\ e.join_type = "right" =>
                       KeepsTargetRows(j) /\ j # LeftJoinForm(e.model, e.onclause)
                /\ e.join_type = "full" => KeepsTargetRows(j) /\ KeepsFromRows(j)
                /\ e.join_type = "left" => ~KeepsTargetRows(j) /\ KeepsFromRows(j)
                /\ e.join_type = "inner" => ~KeepsTargetRows(j) /\ ~KeepsFromRows(j)

\* count(distinct e)
CountDistinct(e) == Func("count", Func("distinct", e))

\* C17: the first statement count() and paginate hand to the session selects
\* from the base relation, with the joins and the predicate of the builder's
\* own statement and without GROUP BY, HAVING, ORDER BY, LIMIT or OFFSET; it
\* projects count(distinct id) when the builder has no GROUP BY and
\* count(distinct first selected expression) when it has one and a
\* projection
C17_CountStatement ==
    [][(last'.op \in {"count", "paginate"} /\ executed' # <<>>) =>
          LET s == executed'[1]
              own == build_query(q)
          IN  /\ s.kind = "select"
              /\ s.select_from = Some(q.base_table)
              /\ s.joins = own.joins
              /\ s.where = own.where
              /\ s.group_by = <<>> /\ s.having = <<>> /\ s.order_by = <<>>
              /\ s.limit = None /\ s.offset = None
              /\ q.group_by = <<>> => s.columns = <<CountDistinct(Col(q.base_table, S_id))>>
              /\ (q.group_by # <<>> /\ q.select # <<>>)
                    => s.columns = <<CountDistinct(q.select[1])>>]_vars

\* C18: update() has returned: the ids of the rows it returns are the ids of
\* the rows its UPDATE statement matched, whatever other sessions have
\* committed between its statements
C18_UpdateReturnsTouchedRows ==
    (update_call.pc = "done" /\ last.status = "ok")
        => {returned[i].id : i \in 1..Len(returned)} = update_call.touched

\* C19: create_many is called on a builder with a base relation and a list
\* in which some row, at whatever position, has a key the base relation has
\* no attribute for: the call raises the unknown-column error, the session
\* has executed no statement and committed nothing, and the table is as it
\* was
C19_CreateManyChecksAllRowsFirst ==
    [][(/\ last'.op = "create_many"
        /\ last.op # "create_many"
        /\ q.base_table # NoTable
        /\ \E i \in 1..Len(last'.args.data) :
              ~(last'.args.data[i].keys \subseteq q.base_table.attrs))
          => /\ last'.status = "raise"
             /\ last'.error = ErrColumn
             /\ executed' = <<>>
             /\ commits' = 0
             /\ batches' = <<>>
             /\ db_rows' = db_rows
             /\ q' = q]_vars

\* create_many with one row per chunk was refused for the key of the second
\* row, the first row being valid, and nothing was executed
C19_Witness ==
    /\ last.op = "create_many"
    /\ last.status = "raise"
    /\ last.error = ErrColumn
    /\ last.args.chunk_size = 1
    /\ Len(last.args.data) = 2
    /\ last.args.data[1].keys \subseteq q.base_table.attrs
    /\ ~(last.args.data[2].keys \subseteq q.base_table.attrs)
    /\ executed = <<>>
    /\ commits = 0

\* the error of a between or not_between check that found no [min, max]
InvalidRange(error) == error \in {ErrBetween, ErrNotBetween, ErrWhereBetween, ErrWhereNotBetween}

\* the call with outcome `status, error, b` on the builder self came out as
\* the chain call with outcome r: both returned the same builder, or both
\* raised the invalid-range error and left self as it was
SameOutcome(self, status, error, b, r) ==
    IF r.ok THEN status = "ok" /\ b = r.b
    ELSE status = "raise" /\ InvalidRange(error) /\ InvalidRange(r.err) /\ b = self /\ r.b = self

\* where_between or where_not_between, by the operator of the filter key
where_range(op, b, column, values) ==
    IF op = S_between THEN where_between(b, column, values)
    ELSE where_not_between(b, column, values)

WhereRangeOp(op) == IF op = S_between THEN "where_between" ELSE "where_not_between"

\* a step is where_between / where_not_between of values on the column
IsWhereRange(op, column_name, values) ==
    last'.op = WhereRangeOp(op) /\ last'.args = RangeArgs(column_name, values)

\* a step is apply_filters({"us.<column>__<op>": values})
IsFilterRange(op, column_name, values) ==
    /\ last'.op = "apply_filters"
    /\ last'.args.filters = RangeFilters(column_name, op, values)

\* the two ways of adding the range predicate to the builder of a step come
\* out the same for the values of `values`
RangesAgree(values) ==
    \A op \in {S_between, S_not_between}, column_name \in RangeColumns, value \in values :
        /\ IsWhereRange(op, column_name, value)
              => SameOutcome(q, last'.status, last'.error, q',
                             apply_filters(q, RangeFilters(column_name, op, value), FALSE))
        /\ IsFilterRange(op, column_name, value)
              => SameOutcome(q, last'.status, last'.error, q',
                             where_range(op, q, Col(User, column_name), value))

\* C20: for every column and every value, apply_filters with a between key
\* and where_between come out the same, a list or tuple of two items adding
\* the same range predicate to the builder and every other value raising
\* the invalid-range error; likewise not_between and where_not_between
C20_BetweenFilterSameOutcome == [][RangesAgree(RangeValues)]_vars

\* C20 as the code has it: the two come out the same for every value but
\* None; with None apply_filters skips the entry, returns and leaves the
\* builder as it was, and where_between / where_not_between raise
C20_BetweenFilterSameOutcomeNotNone ==
    [][/\ RangesAgree(RangeValues \ {NoneVal})
       /\ \A op \in {S_between, S_not_between}, column_name \in RangeColumns :
            /\ IsFilterRange(op, column_name, NoneVal) => last'.status = "ok" /\ q' = q
            /\ IsWhereRange(op, column_name, NoneVal)
                  => last'.status = "raise" /\ InvalidRange(last'.error) /\ q' = q]_vars

\* apply_filters({"us.x__between": (1, 5)}) on a builder that where_between
\* had given a range on y: the builder holds both range predicates
C20_Witness ==
    /\ last.op = "apply_filters"
    /\ last.status = "ok"
    /\ last.args.filters = RangeFilters(S_x, S_between, Val("tuple", <<"1", "5">>))
    /\ q.where = <<Cmp("between", Col(User, S_y), Val("list", <<"1", "5">>)),
                   Cmp("between", Col(User, S_x), Val("tuple", <<"1", "5">>))>>

\* C21: build_filter_expression does not raise the unsupported-operator
\* error for a token of the operator table, and raises it for every other
\* token, the empty token included
C21_OperatorTableClosed ==
    resolved # None =>
        IF resolved[1].op \in OperatorTable THEN resolved[1].err # ErrOperator
        ELSE ~resolved[1].ok /\ resolved[1].err = ErrOperator

\* s.count(".")
DotCount(s) == Cardinality({i \in 1..Len(s) : s[i] = "."})

\* the entries of a mapping that apply_filters does not skip
NotNone(filters) == SelectSeq(filters, LAMBDA e : e.value # NoneVal)

\* C22: apply_filters comes to an entry (the first whose value is not None)
\* whose column path, the part of the key before the operator, does not hold
\* exactly one dot: the call raises the malformed-filter-key error
C22_MalformedKeyRejected ==
    [][(/\ last'.op = "apply_filters"
        /\ NotNone(last'.args.filters) # <<>>
        /\ DotCount(parse_key(NotNone(last'.args.filters)[1].key).col_name) # 1)
          => last'.status = "raise" /\ last'.error = ErrFilterKey]_vars

\* C23: the entries of an apply_filters call whose value is None count for
\* nothing, whatever their key: the call comes out as the call with only
\* the other entries does, and with no other entry it returns and leaves
\* both predicate groups as they were
C23_NoneEntriesSkipped ==
    [][last'.op = "apply_filters"
          => LET filters == last'.args.filters
                 r == apply_filters(q, NotNone(filters), last'.args.use_or)
             IN  /\ IF r.ok THEN last'.status = "ok" /\ q' = r.b
                     ELSE last'.status = "raise" /\ last'.error = r.err /\ q' = q
                 /\ NotNone(filters) = <<>>
                      => /\ last'.status = "ok"
                         /\ q'.where = q.where
                         /\ q'.or_where = q.or_where]_vars

\* apply_filters({"x__eq": None, "zz.x__eq": None}) on
\* db.table(User).where(User.x == 1): a key without a table and a key of an
\* unknown table, both None; the call returned and the groups are unchanged
C23_Witness ==
    /\ last.op = "apply_filters"
    /\ last.status = "ok"
    /\ last.args.filters = <<Entry(K_x_eq, NoneVal), Entry(K_zz_x_eq, NoneVal)>>
    /\ q.where = <<CondX>>
    /\ q.or_where = <<>>

\* the positions of s where a "__" begins
Dunders(s) == {i \in 1..(Len(s) - 1) : s[i] = "_" /\ s[i + 1] = "_"}

\* the greatest member of a non-empty set of numbers
Greatest(S) == CHOOSE i \in S : \A j \in S : j <= i

\* C24: the operator of a key is the part after its last "__" and its column
\* path the part before it; a key without "__" is its column path and its
\* operator is eq; "user.email__like" is (user, email, like) and "user.name"
\* is (user, name, eq)
C24_KeySplitAtLastDunder ==
    resolved # None =>
        LET key == resolved[1].key
            at == Greatest(Dunders(key))
        IN  /\ Dunders(key) = {}
                => resolved[1].col_name = key /\ resolved[1].op = <<"e", "q">>
            /\ Dunders(key) # {}
                => /\ resolved[1].col_name = SubSeq(key, 1, at - 1)
                   /\ resolved[1].op = SubSeq(key, at + 2, Len(key))
            /\ key = K_user_email_like
                => /\ resolved[1].names = <<<<"u", "s", "e", "r">>, <<"e", "m", "a", "i", "l">>>>
                   /\ resolved[1].op = <<"l", "i", "k", "e">>
            /\ key = K_user_name
                => /\ resolved[1].names = <<<<"u", "s", "e", "r">>, <<"n", "a", "m", "e">>>>
                   /\ resolved[1].op = <<"e", "q">>

\* the members an in / notin predicate is to have for a value: the items of
\* a list or tuple, and the value itself for anything else
Members(value) == IF value.t \in {"list", "tuple"} THEN value.v ELSE <<value.v[1]>>

\* the predicate is a membership predicate op of the column with the members
\* of value
IsMembership(e, op, column_name, value) ==
    /\ e.kind = "cmp"
    /\ e.op = op
    /\ e.args = <<Col(User, column_name)>>
    /\ e.val.t \in {"list", "tuple"}
    /\ e.val.v = Members(value)

\* C25: where_in / where_not_in and apply_filters with an in / notin key
\* append the same membership predicate to the AND group for every value
\* (None, which apply_filters skips, left aside): its members are the items
\* of a list or tuple, and the one value otherwise
C25_MembershipSamePredicate ==
    [][\A column_name \in RangeColumns, value \in RangeValues \ {NoneVal} :
        /\ \A op \in {"in", "notin"} :
              (/\ last'.op = (IF op = "in" THEN "where_in" ELSE "where_not_in")
               /\ last'.args = RangeArgs(column_name, value))
                  => /\ last'.status = "ok"
                     /\ Len(q'.where) = Len(q.where) + 1
                     /\ IsMembership(q'.where[Len(q'.where)], op, column_name, value)
        /\ \A op \in {S_in, S_notin} :
              (/\ last'.op = "apply_filters"
               /\ last'.args.filters = RangeFilters(column_name, op, value))
                  => /\ last'.status = "ok"
                     /\ Len(q'.where) = Len(q.where) + 1
                     /\ IsMembership(q'.where[Len(q'.where)],
                                     IF op = S_in THEN "in" ELSE "notin", column_name, value)
      ]_vars

\* C26: from_subquery has returned: the base relation is a subquery under
\* the alias of the call, the projection, the joins and both predicate
\* groups are empty, and every other attribute of the builder is as it was
C26_FromSubqueryFrame ==
    [][(last'.op = "from_subquery" /\ last'.status = "ok")
          => /\ q'.base_table.alias \in {Some(S_us), Some(<<"A">>)}
             /\ q'.base_table.tablename = None
             /\ q'.select = <<>>
             /\ q'.joins = <<>>
             /\ q'.where = <<>>
             /\ q'.or_where = <<>>
             /\ q'.group_by = q.group_by
             /\ q'.having = q.having
             /\ q'.order = q.order
             /\ q'.limit = q.limit
             /\ q'.offset = q.offset
             /\ q'.union_queries = q.union_queries
             /\ q'.union_all = q.union_all
             /\ q'.schema = q.schema
             /\ q'.load_options = q.load_options
             /\ q'.enable_orm = q.enable_orm]_vars

\* from_subquery("A", ...) on the builder with every clause set: the
\* projection, the joins and the predicates are gone and the other clauses
\* are those of the builder
C26_Witness ==
    /\ last.op = "from_subquery"
    /\ last.status = "ok"
    /\ q = [FullBuilder EXCEPT !.base_table = Aliased(PostIds, <<"A">>),
                               !.select = <<>>,
                               !.joins = <<>>,
                               !.where = <<>>,
                               !.or_where = <<>>]

\* C27: a call of where_in_subquery, where_exists_subquery or
\* where_not_exists_subquery invokes the producer once, whatever the
\* producer returns, and a call that returns has added one predicate to the
\* AND group
C27_ProducerInvokedOnce ==
    [][last'.op \in {"where_in_subquery", "where_exists_subquery", "where_not_exists_subquery"}
          => /\ invoked' = 1
             /\ last'.status = "ok" => /\ Len(q'.where) = Len(q.where) + 1
                                       /\ SubSeq(q'.where, 1, Len(q.where)) = q.where]_vars

\* C28: a union or union_all call that returns leaves the builder with the
\* arguments of the call as its union members, whatever the members were,
\* and with the union-all flag set iff the call was union_all; a call with
\* an argument that is no builder raises and leaves members and flag as
\* they were; no other attribute of the builder changes
C28_UnionReplaces ==
    [][last'.op \in {"union", "union_all"}
          => LET queries == last'.args.queries
             IN  IF \A i \in 1..Len(queries) : queries[i].is_table_query
                 THEN /\ last'.status = "ok"
                      /\ q' = [q EXCEPT !.union_queries = queries,
                                        !.union_all = (last'.op = "union_all")]
                 ELSE /\ last'.status = "raise"
                      /\ last'.error = ErrUnion
                      /\ q' = q]_vars

\* union(db.table(Post).where(...)) on the builder that union_all had given
\* two members: one member, and the flag is off
C28_Witness ==
    /\ last.op = "union"
    /\ last.status = "ok"
    /\ q.base_table = Post
    /\ q.union_queries = <<UnionArg(TRUE, MemberPosts)>>
    /\ ~q.union_all

BaseRelationCalls ==
    {"all", "first", "one_or_fail", "find", "first_or_fail", "last", "count", "max", "min",
     "sum", "avg", "exists", "distinct", "distinct_by", "paginate", "create", "create_many",
     "update", "delete", "to_sql", "build_subquery"}

\* C30: a terminal or compile call on a builder without a base relation
\* raises the base-relation error, and the session has been handed no
\* statement and no commit
C30_NoBaseRelationRejected ==
    [][(q.base_table = NoTable /\ last'.op \in BaseRelationCalls /\ last' # last)
          => /\ last'.status = "raise"
             /\ last'.error = ErrBaseTable
             /\ executed' = <<>>
             /\ commits' = 0]_vars

\* the effective page and page size of the latest paginate call
EffectivePage == IF last.args.page < 1 THEN 1 ELSE last.args.page

EffectivePerPage == IF last.args.per_page < 1 THEN DefaultPerPage ELSE last.args.per_page

\* C31: paginate raises only what the session raises, whatever page and
\* per_page are; a page < 1 counts as 1 and a per_page < 1 as the default;
\* the page statement has limit = per_page and offset = (page - 1) * per_page
\* whatever limit and offset the builder had; the returned limit, offset and
\* current_page are these effective values
C31_PaginateClampsAndOverrides ==
    last.op = "paginate"
        => /\ last.status = "raise" => last.error = ErrSession
           /\ Len(executed) = 2
                => /\ executed[2].limit = Some(PyInt(EffectivePerPage))
                   /\ executed[2].offset = Some(PyInt((EffectivePage - 1) * EffectivePerPage))
           /\ last.status = "ok"
                => /\ Len(executed) = 2
                   /\ page_meta[1].limit = EffectivePerPage
                   /\ page_meta[1].offset = (EffectivePage - 1) * EffectivePerPage
                   /\ page_meta[1].current_page = EffectivePage

\* paginate(-1, 0) has returned: page 1 of size 10, and the page statement
\* ran with limit 10 and offset 0
C31_Witness ==
    /\ last.op = "paginate"
    /\ last.status = "ok"
    /\ last.args.page = -1
    /\ last.args.per_page = 0
    /\ page_meta[1].current_page = 1
    /\ page_meta[1].limit = DefaultPerPage
    /\ executed[2].limit = Some(PyInt(DefaultPerPage))
    /\ executed[2].offset = Some(PyInt(0))

\* the clause list each chain call fills
ClauseList ==
    [where |-> "where", or_where |-> "or_where", select |-> "select", order_by |-> "order",
     group_by |-> "group_by", having |-> "having", join |-> "joins", left_join |-> "joins",
     inner_join |-> "joins", right_join |-> "joins", full_join |-> "joins"]

ClauseLists == {ClauseList[op] : op \in DOMAIN ClauseList}

\* C32: a chain call leaves in its clause list the entries the list had, in
\* the order they had, followed by the call's arguments in argument order,
\* and leaves every other clause list as it was; the statement all() hands
\* to the session has the builder's joins and its order-by entries in list
\* order
C32_ClauseListsInCallOrder ==
    [][/\ (last'.status = "ok" /\ last'.op \in DOMAIN ClauseList)
            => /\ q'[ClauseList[last'.op]] = q[ClauseList[last'.op]] \o last'.args.value
               /\ \A l \in ClauseLists \ {ClauseList[last'.op]} : q'[l] = q[l]
       /\ (last'.status = "ok" /\ last'.op = "all")
            => /\ executed'[1].order_by = q.order
               /\ Len(executed'[1].joins) = Len(q.joins)
               /\ \A i \in 1..Len(q.joins) :
                      /\ executed'[1].joins[i].target = q.joins[i].model
                      /\ executed'[1].joins[i].onclause = q.joins[i].onclause]_vars

\* full_join(aliased(User)) has been called after left_join(Post): the list
\* holds the left join to Post and then the full join to the alias
C32_Witness ==
    /\ last.op = "full_join"
    /\ last.status = "ok"
    /\ last.args.value = <<JoinEntry("full", UserAlias, OnPost)>>
    /\ q.joins = <<JoinEntry("left", Post, OnPost), JoinEntry("full", UserAlias, OnPost)>>

\* the names a relation has: its table name, its model name and its alias
NamesOf(rel) ==
    {Lower(name[1]) : name \in {rel.tablename, rel.pyname, rel.alias} \ {None}}

\* the names the base relation has as table name or model name, and the names
\* the joins have
KnownNames ==
    {Lower(name[1]) : name \in {q.base_table.tablename, q.base_table.pyname} \ {None}}
    \cup UNION {NamesOf(q.joins[i].model) : i \in 1..Len(q.joins)}

\* C33: a requested table name that is none of the base relation's table
\* name and model name and none of the joins' table names, model names and
\* aliases is the unknown-table error, which lists the base relation and
\* every join; a failure for a name that is one of them is the
\* unknown-column error
C33_UnknownTableRejected ==
    (last.op = "get_column_from_model" /\ resolved # None)
        => LET r == resolved[1]
           IN  IF Lower(r.table_name) \notin KnownNames
               THEN /\ ~r.ok
                    /\ r.err = ErrUnknownTable
                    /\ Len(r.available) = Len(q.joins) + (IF q.base_table # NoTable THEN 1 ELSE 0)
               ELSE ~r.ok => r.err = ErrNoColumn

\* the TransactionStack objects that running wrappers hold: the one of the
\* context variable and those of the running standalone calls
LiveStacks ==
    (IF ctx # None THEN {ctx[1]} ELSE {})
    \cup {frames[i].stack : i \in {j \in 1..Len(frames) : frames[j].standalone}}

\* C34: every TransactionStack a running wrapper holds has depth >= 0 and
\* holds max(depth - 1, 0) savepoints
C34_DepthAndSavepoints ==
    \A stack \in LiveStacks :
        /\ stack.depth >= 0
        /\ Len(stack.savepoints) = (IF stack.depth > 1 THEN stack.depth - 1 ELSE 0)

\* the session's transaction begins, and it ends by commit or rollback
SessionBegins == ~session.begun /\ session'.begun

SessionEnds == (session.begun /\ ~session'.begun) \/ committed' # committed

\* C35: with non-standalone calls only, the session's transaction begins in
\* the call made while no decorated function runs and ends, by commit or
\* rollback, only in the step in which that outermost call ends; a call made
\* inside it creates one savepoint and an inner call that ends leaves the
\* transaction begun; when the outermost call has ended the context
\* variable is unset
C35_OutermostOwnsTransaction ==
    [][/\ SessionBegins => (frames = <<>> /\ step'.kind = "call")
       /\ (frames = <<>> /\ frames' # <<>>) => SessionBegins
       /\ SessionEnds => (Len(frames) = 1 /\ frames' = <<>>)
       /\ (frames # <<>> /\ Len(frames') = Len(frames) + 1)
            => (session'.nsaves = session.nsaves + 1 /\ session'.pending = session.pending)
       /\ (Len(frames) > 1 /\ Len(frames') < Len(frames))
            => (session'.begun /\ committed' = committed)
       /\ frames' = <<>> => ctx' = None]_vars

\* an outermost call has returned and committed a change after a call made
\* inside it had created a savepoint; nothing runs, the transaction is over
\* and the context variable is unset
C35_Witness ==
    /\ frames = <<>>
    /\ step.kind = "return"
    /\ step.status = "ok"
    /\ ~step.nested
    /\ session.nsaves >= 1
    /\ committed # <<>>
    /\ ~session.begun
    /\ ctx = None

\* C36: an apply_filters call that raises, for a malformed key, an unknown
\* table, an unknown column, an unsupported operator or an invalid range,
\* leaves the AND-group and the OR-group as they were, whatever valid
\* entries come before the failing one
C36_ApplyFiltersAllOrNothing ==
    [][(last'.op = "apply_filters" /\ last'.status = "raise")
            => (q'.where = q.where /\ q'.or_where = q.or_where)]_vars

\* apply_filters({"us.x__eq": 1, "us.y__between": 1}) has raised on its
\* second entry, and the AND-group is the one predicate it held before
C36_Witness ==
    /\ last.op = "apply_filters"
    /\ last.status = "raise"
    /\ last.args.filters = <<Entry(K_us_x_eq, IntVal("1")), Entry(K_us_y_between, IntVal("1"))>>
    /\ ~last.args.use_or
    /\ q.where = <<CondX>>
    /\ q.or_where = <<>>

\* C37: while the manager is initialized, get_engine and get_session_maker
\* succeed for every name list_connections returns
C37_ListedConnectionsHaveEngines ==
    manager.initialized
        => \A name \in list_connections(manager) :
              /\ get_engine(manager, Some(name)).ok
              /\ get_session_maker(manager, Some(name)).ok

\* C38: the metadata paginate returns has first_page <= current_page <=
\* last_page, and previous_page is None exactly when current_page is 1
C38_CurrentPageWithinRange ==
    (last.op = "paginate" /\ last.status = "ok")
        => LET meta == page_meta[1]
           IN  /\ meta.first_page <= meta.current_page
               /\ meta.current_page <= meta.last_page
               /\ (meta.previous_page = None) = (meta.current_page = 1)

\* the places of the batches handed to INSERT that hold the row
PlacesOf(row) ==
    {p \in {<<k, j>> : k \in 1..Len(batches), j \in 1..MaxBatchRows + 1} :
        p[2] <= Len(batches[p[1]]) /\ batches[p[1]][p[2]] = row}

\* C39: a create_many call on a non-empty valid data_list that returns, for
\* any integer chunk_size, has inserted every row of data_list exactly once
C39_EveryRowInsertedOnce ==
    (last.op = "create_many" /\ last.status = "ok")
        => \A i \in 1..Len(last.args.data) :
              Cardinality(PlacesOf(last.args.data[i])) = 1

\* C40: every builder a flow has obtained through the model class after
\* setting its session is bound to the session that flow set
C40_BuildersBoundToOwnSession ==
    \A f \in Flows :
        \A i \in 1..Len(flows[f].builders) :
            flows[f].builders[i].session = flows[f].session[1]

====
